---- MODULE Spec2Model ----
(***************************************************************************)
(* Model of nekkus-eye: the metrics Collector (internal/monitor/monitor.go) *)
(* with its sampling loop, its RWMutex-guarded cached Stats and concurrent  *)
(* Get() callers, and the process lister (monitor/processes.go).            *)
(***************************************************************************)
EXTENDS Integers, Sequences, FiniteSets, TLC

(* ------------------------------ bounds --------------------------------- *)
\* number of concurrent callers of Collector.Get
NumReaders == 2
\* ticks the time.Ticker delivers in one run
MaxTicks == 1
\* sub-query failures the operating system injects in one run
MaxFaults == 1
\* calls of Collector.Stop in one run
MaxStopCalls == 2
\* number of leading Stats fields moved by the first half of a struct copy
CopySplit == 18

\* size of the largest process table the operating system reports
MaxProcs == 501
\* size of the largest process table built with every rotation of the kinds
SmallProcs == 6
\* size of the table of busy processes given to ListTopProcessesByCPU
TopProcs == 22
\* largest PID the operating system can resolve
MaxPid == 2
\* calls of KillProcess in one run
MaxKillCalls == 2
MaxRequests == 2

Readers == 1..NumReaders

(* ------------------------------ values --------------------------------- *)
\* A field value is <<source, pass>>: the sub-query that supplied it (or
\* "zero" for the Go zero value / the default assigned on failure) and the
\* collect pass that computed it.  Pass 0 is the zero-valued Collector.last.
Zero(n) == <<"zero", n>>
Val(q, n) == <<q, n>>
IsZero(v) == v[1] = "zero"
\* A float64 that is NaN or an infinity, computed in pass n.
NonFinite(n) == <<"nonfinite", n>>
IsNonFinite(v) == v[1] = "nonfinite"

\* Stats fields in declaration order (monitor.go:19-59).
StatsFields ==
  << "CPUPercent", "CPUModelName", "CPUMhz", "CPUCores", "CPUPhysicalCores",
     "MemoryPercent", "MemoryUsedMB", "MemoryTotalMB", "MemoryFreeMB",
     "MemoryAvailableMB", "SwapTotalMB", "SwapUsedMB", "SwapFreeMB",
     "DiskPercent", "DiskUsedGB", "DiskTotalGB", "DiskFreeGB", "DiskPath",
     "GPUPercent", "GPUName", "GPUTempC", "GPUMemoryUsedMB", "GPUMemoryTotalMB",
     "Hostname", "Platform", "OS", "KernelArch", "KernelVersion", "UptimeSec",
     "ProcessCount", "NetBytesSent", "NetBytesRecv", "Timestamp" >>

FieldSet == { StatsFields[i] : i \in 1..Len(StatsFields) }
FieldPos(f) == CHOOSE i \in 1..Len(StatsFields) : StatsFields[i] = f

\* The zero value of Stats: Collector.last right after NewCollector.
ZeroStats == [f \in FieldSet |-> Zero(0)]

\* The sub-queries of one collect pass, in call order (monitor.go:91-190).
SubQueries ==
  << "cpuPercent", "cpuInfo", "cpuCountsLogical", "cpuCountsPhysical", "mem",
     "swap", "disk", "host", "pids", "gpu", "net" >>
SubQ == { SubQueries[i] : i \in 1..Len(SubQueries) }

\* Sub-queries whose result the code also rejects when it is empty / nil /
\* not positive although err == nil (monitor.go:93,101,110,113,152,187).
CanBeEmpty == {"cpuPercent", "cpuInfo", "cpuCountsLogical", "cpuCountsPhysical",
               "disk", "net"}
Outcomes(q) == IF q \in CanBeEmpty THEN {"ok", "err", "empty"} ELSE {"ok", "err"}

\* The statements of collect(): the eleven sub-queries, then the publish
\* under the exclusive lock (monitor.go:90-229).
CollectBodyLockFirst == <<"Lock">> \o SubQueries \o <<"Assign", "Unlock">>
CollectBody == SubQueries \o <<"Lock", "Assign", "Unlock">>

VARIABLES
  last,          \* Collector.last
  mu,            \* Collector.mu: [readers: set of holders, w: writer state]
  tickC,         \* Collector.ticker.C, a channel of capacity 1 (0 or 1 tick)
  tickerStopped, \* ticker.Stop() has been called
  stopClosed,    \* Collector.stop is closed
  panicked,      \* a goroutine panicked (close of a closed channel)
  loopPc,        \* position of the loop goroutine
  stmt,          \* index into CollectBody while loopPc = "collect"
  wcur,          \* halves of c.last already overwritten by the assignment
  loc,           \* collect()'s local variables
  outc,          \* what each sub-query of the current pass returned
  pass,          \* number of collect passes started
  rd,            \* the Get() callers
  published,     \* history: number of completed publishes
  ticksSent,     \* history: ticks delivered by the runtime timer
  ticksRecv,     \* history: ticks received by the loop's select
  faultsLeft,    \* failures the operating system will still inject
  stopCalls,     \* history: calls of Stop()
  stopInFlight,  \* history: pass in flight when Stop() first closed the channel
  calls,         \* history: sub-query invocations of the current pass
  procs,         \* the OS process table returned by process.Processes()
  procsErr,      \* process.Processes() fails
  limitIn,       \* ListProcesses argument limit
  queryIn,       \* ListProcesses argument query
  withMetricsIn, \* ListProcesses argument withMetrics
  listPc,        \* "ready" before the call, "done" after it
  listOut,       \* the returned []ProcessInfo
  listErr,       \* the returned error is non-nil
  topLimitIn,    \* ListTopProcessesByCPU argument limit
  topPc,         \* "ready" before the call, "done" after it
  topOut,        \* the returned []ProcessInfo
  topErr,        \* the returned error is non-nil
  live,          \* PIDs the operating system resolves to a process
  protected,     \* PIDs whose termination the operating system refuses
  killPid,       \* KillProcess argument pid
  killPc,        \* position inside KillProcess
  killRet,       \* the error KillProcess returned ("nil" for nil)
  killCalls,     \* history: calls of KillProcess
  signals,       \* history: terminate requests issued, as <<pid, outcome>>
  sigBefore,     \* history: number of terminate requests when the call began
  killResolved,  \* history: process.NewProcess resolved the PID in this call
  req,           \* the HTTP request being served
  hpc,           \* index of the handler's next statement (0: no request)
  hloc,          \* the handler's local variables
  resp,          \* the http.ResponseWriter: headers, status line, body
  gpuTool,       \* the external GPU tool: how it ends and what it prints
  gpuPc,         \* position inside getGPUStats
  gpuStats,      \* the GPUStats the last probe returned
  gpuEnd         \* history: how the last cmd.Run() ended

vars == << last, mu, tickC, tickerStopped, stopClosed, panicked, loopPc, stmt,
           wcur, loc, outc, pass, rd, published, ticksSent, ticksRecv, faultsLeft,
           stopCalls, stopInFlight, calls, procs, procsErr, limitIn, queryIn,
           withMetricsIn, listPc, listOut, listErr,
           topLimitIn, topPc, topOut, topErr,
           live, protected, killPid, killPc, killRet, killCalls, signals,
           sigBefore, killResolved, req, hpc, hloc, resp,
           gpuTool, gpuPc, gpuStats, gpuEnd >>

collVars == << last, mu, tickC, tickerStopped, stopClosed, panicked, loopPc,
               stmt, wcur, loc, outc, pass, rd, published, ticksSent,
               ticksRecv, faultsLeft, stopCalls, stopInFlight, calls >>

listVars == << procs, procsErr, limitIn, queryIn, withMetricsIn, listPc,
               listOut, listErr >>

topVars == << topLimitIn, topPc, topOut, topErr >>

\* Everything outside the Collector and the lister.
killVars == << live, protected, killPid, killPc, killRet, killCalls, signals,
               sigBefore, killResolved >>

httpVars == << req, hpc, hloc, resp >>

gpuVars == << gpuTool, gpuPc, gpuStats, gpuEnd >>

auxVars == << topVars, killVars, httpVars, gpuVars >>

(* --------------------------- collect(): locals -------------------------- *)
\* Locals as declared with their defaults (monitor.go:92-186); diskPath is
\* chosen from the OS convention, not sampled (monitor.go:144-151).
LocalsInit(n) ==
  [ cpuPct |-> Zero(n), cpuModelName |-> Zero(n), cpuMhz |-> Zero(n),
    cpuCores |-> Zero(n), cpuPhysicalCores |-> Zero(n),
    memPct |-> Zero(n), memUsed |-> Zero(n), memTotal |-> Zero(n),
    memFree |-> Zero(n), memAvailable |-> Zero(n),
    swapTotal |-> Zero(n), swapUsed |-> Zero(n), swapFree |-> Zero(n),
    diskPct |-> Zero(n), diskUsedGB |-> Zero(n), diskTotalGB |-> Zero(n),
    diskFreeGB |-> Zero(n), diskPath |-> Val("diskPath", n),
    hostname |-> Zero(n), platform |-> Zero(n), osName |-> Zero(n),
    kernelArch |-> Zero(n), kernelVersion |-> Zero(n), uptimeSec |-> Zero(n),
    processCount |-> Zero(n),
    gpuUtil |-> Zero(n), gpuName |-> Zero(n), gpuTemp |-> Zero(n),
    gpuMemUsed |-> Zero(n), gpuMemTotal |-> Zero(n),
    netSent |-> Zero(n), netRecv |-> Zero(n) ]

\* A sub-query's result is used only under `err == nil && <non-empty>`.
UsedAlways(o) == TRUE
Used(o) == o = "ok"

\* The effect of sub-query q returning outcome o on the locals, pass n.
ApplyQuery(l, q, o, n) ==
  IF ~Used(o) THEN l
  ELSE CASE q = "cpuPercent" -> [l EXCEPT !.cpuPct = Val(q, n)]
         [] q = "cpuInfo" ->
              [l EXCEPT !.cpuModelName = Val(q, n), !.cpuMhz = Val(q, n),
                        !.cpuCores = Val(q, n)]
         [] q = "cpuCountsLogical" -> [l EXCEPT !.cpuCores = Val(q, n)]
         [] q = "cpuCountsPhysical" -> [l EXCEPT !.cpuPhysicalCores = Val(q, n)]
         [] q = "mem" ->
              [l EXCEPT !.memPct = Val(q, n), !.memUsed = Val(q, n),
                        !.memTotal = Val(q, n), !.memFree = Val(q, n),
                        !.memAvailable = Val(q, n)]
         [] q = "swap" ->
              [l EXCEPT !.swapTotal = Val(q, n), !.swapUsed = Val(q, n),
                        !.swapFree = Val(q, n)]
         [] q = "disk" ->
              [l EXCEPT !.diskPct = Val(q, n), !.diskUsedGB = Val(q, n),
                        !.diskTotalGB = Val(q, n), !.diskFreeGB = Val(q, n)]
         [] q = "host" ->
              [l EXCEPT !.hostname = Val(q, n), !.platform = Val(q, n),
                        !.osName = Val(q, n), !.kernelArch = Val(q, n),
                        !.kernelVersion = Val(q, n), !.uptimeSec = Val(q, n)]
         [] q = "pids" -> [l EXCEPT !.processCount = Val(q, n)]
         [] q = "gpu" ->
              [l EXCEPT !.gpuUtil = Val(q, n), !.gpuName = Val(q, n),
                        !.gpuTemp = Val(q, n), !.gpuMemUsed = Val(q, n),
                        !.gpuMemTotal = Val(q, n)]
         [] q = "net" -> [l EXCEPT !.netSent = Val(q, n), !.netRecv = Val(q, n)]

\* The composite literal assigned to c.last (monitor.go:193-227).
NewStats(l, n) ==
  [ CPUPercent |-> l.cpuPct, CPUModelName |-> l.cpuModelName,
    CPUMhz |-> l.cpuMhz, CPUCores |-> l.cpuCores,
    CPUPhysicalCores |-> l.cpuPhysicalCores,
    MemoryPercent |-> l.memPct, MemoryUsedMB |-> l.memUsed,
    MemoryTotalMB |-> l.memTotal, MemoryFreeMB |-> l.memFree,
    MemoryAvailableMB |-> l.memAvailable,
    SwapTotalMB |-> l.swapTotal, SwapUsedMB |-> l.swapUsed,
    SwapFreeMB |-> l.swapFree,
    DiskPercent |-> l.diskPct, DiskUsedGB |-> l.diskUsedGB,
    DiskTotalGB |-> l.diskTotalGB, DiskFreeGB |-> l.diskFreeGB,
    DiskPath |-> l.diskPath,
    GPUPercent |-> l.gpuUtil, GPUName |-> l.gpuName, GPUTempC |-> l.gpuTemp,
    GPUMemoryUsedMB |-> l.gpuMemUsed, GPUMemoryTotalMB |-> l.gpuMemTotal,
    Hostname |-> l.hostname, Platform |-> l.platform, OS |-> l.osName,
    KernelArch |-> l.kernelArch, KernelVersion |-> l.kernelVersion,
    UptimeSec |-> l.uptimeSec, ProcessCount |-> l.processCount,
    NetBytesSent |-> l.netSent, NetBytesRecv |-> l.netRecv,
    Timestamp |-> Val("clock", n) ]

\* A struct assignment dst = src is a plain memory copy: the fields at
\* positions lo..hi of dst are overwritten, the others keep their content.
CopyFields(dst, src, lo, hi) ==
  [f \in FieldSet |-> IF FieldPos(f) >= lo /\ FieldPos(f) <= hi
                      THEN src[f] ELSE dst[f]]

(* ------------------------------ sync.RWMutex ---------------------------- *)
\* Lock() first announces the writer, which holds back new readers, and then
\* waits for the active readers to leave; RLock() waits while a writer is
\* announced or inside.
MuFree == [readers |-> {}, w |-> "free"]
CanRLock(m) == m.w = "free"
CanLockAlways(m) == TRUE
CanLock(m) == m.readers = {}

(* ------------------------------ Init ------------------------------------ *)
\* The state in which NewCollector returns: ticker created, loop goroutine
\* spawned but not yet scheduled (monitor.go:70-75).
\* A Get() caller.  prev is << >> for a caller that calls Get() once per
\* result and <<n>> for a caller that calls Get() again and again and holds a
\* Snapshot of pass n from its previous call (the zero record, pass 0, before
\* its first call).
ReaderIdle == [pc |-> "idle", res |-> ZeroStats, seen |-> 0, during |-> 0,
               prev |-> << >>]
SameCaller == [ReaderIdle EXCEPT !.prev = << 0 >>]

CollectorStart(callers, budget) ==
  /\ last = ZeroStats
  /\ mu = MuFree
  /\ tickC = 0
  /\ tickerStopped = FALSE
  /\ stopClosed = FALSE
  /\ panicked = FALSE
  /\ loopPc = "spawned"
  /\ stmt = 0
  /\ wcur = 0
  /\ loc = LocalsInit(0)
  /\ outc = [q \in SubQ |-> "none"]
  /\ pass = 0
  /\ rd = callers
  /\ published = 0
  /\ ticksSent = 0
  /\ ticksRecv = 0
  /\ faultsLeft = budget
  /\ stopCalls = 0
  /\ stopInFlight = 0
  /\ calls = 0

CollectorInit(getters, budget) ==
  CollectorStart([r \in getters |-> ReaderIdle], budget)

(* ------------------------------ the loop -------------------------------- *)
Alive == ~panicked

\* loop() runs collect() once before it first waits (monitor.go:78).
LoopEntryWaitFirst == "select"
LoopEntry == "collect"

\* collect() has no early return: whatever a statement yields, the next
\* statement follows (monitor.go:90-229).
NextPcAbortOnError(i, o) == IF o = "err" THEN Len(CollectBody) + 1 ELSE i + 1
NextPc(i, o) == i + 1

\* The select case <-c.stop is taken only while the loop waits in the select
\* (monitor.go:80-83).
StopSeenAnywhere == loopPc \in {"select", "collect"}
StopSeenAtSelect == loopPc = "select"

\* The select case <-c.ticker.C is taken only while the loop waits in the
\* select, after collect() has returned (monitor.go:80-86).
TickSeenAnywhere == loopPc \in {"select", "collect"}
TickSeenAtSelect == loopPc = "select"

\* c.ticker.Stop() in the stop case (monitor.go:82): the ticker is stopped.
TickerStopSkipped(stopped) == stopped
TickerStop(stopped) == TRUE

\* After ticker.Stop() the stop case returns from loop() (monitor.go:82-83).
AfterStopCaseKeepLooping == "select"
AfterStopCase == "exited"

\* close(c.stop) (monitor.go:240): closing a closed channel panics.
CloseChanIdempotent(closed) == "closed"
CloseChan(closed) == IF closed THEN "panic" ELSE "closed"

AtStmt(k) == loopPc = "collect" /\ stmt \in 1..Len(CollectBody)
             /\ CollectBody[stmt] = k
Sampling == loopPc = "collect" /\ stmt \in 1..Len(CollectBody)
            /\ CollectBody[stmt] \in SubQ

\* Entering collect(): a new pass with fresh locals.
BeginCollect ==
  /\ loopPc' = "collect"
  /\ stmt' = 1
  /\ pass' = pass + 1
  /\ loc' = LocalsInit(pass + 1)
  /\ outc' = [q \in SubQ |-> "none"]
  /\ calls' = 0

\* Moving past statement stmt; collect() returns into the select after its
\* last statement.
Advance(o) ==
  IF NextPc(stmt, o) > Len(CollectBody)
  THEN loopPc' = "select" /\ stmt' = 0
  ELSE loopPc' = "collect" /\ stmt' = NextPc(stmt, o)

\* go c.loop() is scheduled (monitor.go:73,77-78).
LoopStart ==
  /\ Alive /\ loopPc = "spawned"
  /\ IF LoopEntry = "collect"
     THEN BeginCollect
     ELSE loopPc' = "select" /\ UNCHANGED <<stmt, pass, loc, outc, calls>>
  /\ UNCHANGED <<listVars, auxVars>>
  /\ UNCHANGED <<last, mu, tickC, tickerStopped, stopClosed, panicked, wcur,
                 rd, published, ticksSent, ticksRecv, faultsLeft, stopCalls,
                 stopInFlight>>

\* One sub-query of collect() (monitor.go:91-190): the OS answers or fails.
Query ==
  /\ Alive /\ Sampling
  /\ CollectBody[stmt] = "gpu" => gpuTool.kind = "abstract"
  /\ \E o \in Outcomes(CollectBody[stmt]) :
       /\ o # "ok" => faultsLeft > 0
       /\ faultsLeft' = IF o = "ok" THEN faultsLeft ELSE faultsLeft - 1
       /\ loc' = ApplyQuery(loc, CollectBody[stmt], o, pass)
       /\ outc' = [outc EXCEPT ![CollectBody[stmt]] = o]
       /\ Advance(o)
  /\ calls' = calls + 1
  /\ UNCHANGED <<listVars, auxVars>>
  /\ UNCHANGED <<last, mu, tickC, tickerStopped, stopClosed, panicked, wcur,
                 pass, rd, published, ticksSent, ticksRecv, stopCalls,
                 stopInFlight>>

\* c.mu.Lock(), first half: the writer is announced (monitor.go:192).
LockAnnounce ==
  /\ Alive /\ AtStmt("Lock") /\ mu.w = "free"
  /\ mu' = [mu EXCEPT !.w = "pending"]
  /\ UNCHANGED <<listVars, auxVars>>
  /\ UNCHANGED <<last, tickC, tickerStopped, stopClosed, panicked, loopPc,
                 stmt, wcur, loc, outc, pass, rd, published, ticksSent,
                 ticksRecv, faultsLeft, stopCalls, stopInFlight, calls>>

\* c.mu.Lock(), second half: the readers have left (monitor.go:192).
LockAcquire ==
  /\ Alive /\ AtStmt("Lock") /\ mu.w = "pending" /\ CanLock(mu)
  /\ mu' = [mu EXCEPT !.w = "held"]
  /\ Advance("ok")
  /\ UNCHANGED <<listVars, auxVars>>
  /\ UNCHANGED <<last, tickC, tickerStopped, stopClosed, panicked, wcur, loc,
                 outc, pass, rd, published, ticksSent, ticksRecv, faultsLeft,
                 stopCalls, stopInFlight, calls>>

\* c.last = Stats{...}, first part of the copy (monitor.go:193-227).
AssignFirst ==
  /\ Alive /\ AtStmt("Assign") /\ wcur = 0
  /\ last' = CopyFields(last, NewStats(loc, pass), 1, CopySplit)
  /\ wcur' = 1
  /\ UNCHANGED <<listVars, auxVars>>
  /\ UNCHANGED <<mu, tickC, tickerStopped, stopClosed, panicked, loopPc, stmt,
                 loc, outc, pass, rd, published, ticksSent, ticksRecv, faultsLeft,
                 stopCalls, stopInFlight, calls>>

\* c.last = Stats{...}, rest of the copy: the pass is published.
AssignRest ==
  /\ Alive /\ AtStmt("Assign") /\ wcur = 1
  /\ last' = CopyFields(last, NewStats(loc, pass), CopySplit + 1,
                        Len(StatsFields))
  /\ wcur' = 0
  /\ published' = published + 1
  /\ Advance("ok")
  /\ UNCHANGED <<listVars, auxVars>>
  /\ UNCHANGED <<mu, tickC, tickerStopped, stopClosed, panicked, loc, outc,
                 pass, rd, ticksSent, ticksRecv, faultsLeft, stopCalls,
                 stopInFlight, calls>>

\* c.mu.Unlock() (monitor.go:228); collect() returns.
Unlock ==
  /\ Alive /\ AtStmt("Unlock")
  /\ mu' = [mu EXCEPT !.w = "free"]
  /\ Advance("ok")
  /\ UNCHANGED <<listVars, auxVars>>
  /\ UNCHANGED <<last, tickC, tickerStopped, stopClosed, panicked, wcur, loc,
                 outc, pass, rd, published, ticksSent, ticksRecv, faultsLeft,
                 stopCalls, stopInFlight, calls>>

\* select, case <-c.stop: ticker.Stop(); return (monitor.go:81-83).
SelectStop ==
  /\ Alive /\ StopSeenAtSelect /\ stopClosed
  /\ tickerStopped' = TickerStop(tickerStopped)
  /\ loopPc' = AfterStopCase
  /\ stmt' = 0
  /\ UNCHANGED <<listVars, auxVars>>
  /\ UNCHANGED <<last, mu, tickC, stopClosed, panicked, wcur, loc, outc, pass,
                 rd, published, ticksSent, ticksRecv, faultsLeft, stopCalls,
                 stopInFlight, calls>>

\* select, case <-c.ticker.C: c.collect() (monitor.go:84-85).  With both
\* channels ready the runtime picks either case.
SelectTick ==
  /\ Alive /\ TickSeenAtSelect /\ tickC = 1
  /\ tickC' = 0
  /\ ticksRecv' = ticksRecv + 1
  /\ BeginCollect
  /\ UNCHANGED <<listVars, auxVars>>
  /\ UNCHANGED <<last, mu, tickerStopped, stopClosed, panicked, wcur, rd,
                 published, ticksSent, faultsLeft, stopCalls, stopInFlight>>

\* The runtime timer sends on ticker.C; a tick that finds the channel full
\* is dropped (time.NewTicker, monitor.go:72).
Tick ==
  /\ Alive /\ ~tickerStopped /\ ticksSent < MaxTicks
  /\ tickC' = 1
  /\ ticksSent' = ticksSent + 1
  /\ UNCHANGED <<listVars, auxVars>>
  /\ UNCHANGED <<last, mu, tickerStopped, stopClosed, panicked, loopPc, stmt,
                 wcur, loc, outc, pass, rd, published, ticksRecv, faultsLeft,
                 stopCalls, stopInFlight, calls>>

\* Collector.Stop() (monitor.go:239-241).
Stop ==
  /\ Alive /\ stopCalls < MaxStopCalls
  /\ stopCalls' = stopCalls + 1
  /\ IF CloseChan(stopClosed) = "panic"
     THEN panicked' = TRUE /\ UNCHANGED <<stopClosed, stopInFlight>>
     ELSE /\ stopClosed' = TRUE
          /\ stopInFlight' = IF stopClosed THEN stopInFlight
                             ELSE IF loopPc = "collect" THEN pass ELSE 0
          /\ UNCHANGED panicked
  /\ UNCHANGED <<listVars, auxVars>>
  /\ UNCHANGED <<last, mu, tickC, tickerStopped, loopPc, stmt, wcur, loc,
                 outc, pass, rd, published, ticksSent, ticksRecv, faultsLeft,
                 calls>>

(* ------------------------------ Get() ----------------------------------- *)
\* c.mu.RLock() (monitor.go:233).
RLock(r) ==
  /\ Alive /\ rd[r].pc = "idle" /\ CanRLock(mu)
  /\ mu' = [mu EXCEPT !.readers = @ \cup {r}]
  /\ rd' = [rd EXCEPT ![r] = [pc |-> "copy", res |-> ZeroStats,
                              seen |-> published,
                              during |-> IF Sampling THEN pass ELSE 0,
                              prev |-> rd[r].prev]]
  /\ UNCHANGED <<listVars, auxVars>>
  /\ UNCHANGED <<last, tickC, tickerStopped, stopClosed, panicked, loopPc,
                 stmt, wcur, loc, outc, pass, published, ticksSent, ticksRecv,
                 faultsLeft, stopCalls, stopInFlight, calls>>

\* return c.last, first part of the copy into the result (monitor.go:235).
CopyFirst(r) ==
  /\ Alive /\ rd[r].pc = "copy"
  /\ rd' = [rd EXCEPT ![r].res = CopyFields(@, last, 1, CopySplit),
                      ![r].pc = "copy2"]
  /\ UNCHANGED <<listVars, auxVars>>
  /\ UNCHANGED <<last, mu, tickC, tickerStopped, stopClosed, panicked, loopPc,
                 stmt, wcur, loc, outc, pass, published, ticksSent, ticksRecv,
                 faultsLeft, stopCalls, stopInFlight, calls>>

\* return c.last, rest of the copy; the deferred c.mu.RUnlock() runs as
\* Get() returns res (monitor.go:234-235).
CopyRest(r) ==
  /\ Alive /\ rd[r].pc = "copy2"
  /\ rd' = [rd EXCEPT ![r].res = CopyFields(@, last, CopySplit + 1,
                                            Len(StatsFields)),
                      ![r].pc = "done"]
  /\ mu' = [mu EXCEPT !.readers = @ \ {r}]
  /\ UNCHANGED <<listVars, auxVars>>
  /\ UNCHANGED <<last, tickC, tickerStopped, stopClosed, panicked, loopPc,
                 stmt, wcur, loc, outc, pass, published, ticksSent, ticksRecv,
                 faultsLeft, stopCalls, stopInFlight, calls>>

\* The caller has consumed the result and may call Get() again.
Return(r) ==
  /\ Alive /\ rd[r].pc = "done"
  /\ rd' = [rd EXCEPT ![r] =
               [ReaderIdle EXCEPT !.prev = IF rd[r].prev = << >> THEN << >>
                                           ELSE << rd[r].res.Timestamp[2] >>]]
  /\ UNCHANGED <<listVars, auxVars>>
  /\ UNCHANGED <<last, mu, tickC, tickerStopped, stopClosed, panicked, loopPc,
                 stmt, wcur, loc, outc, pass, published, ticksSent, ticksRecv,
                 faultsLeft, stopCalls, stopInFlight, calls>>

(* --------------------------- process lister ----------------------------- *)
\* Strings are sequences of one-character strings.
Upper == << "A","B","C","D","E","F","G","H","I","J","K","L","M","N","O","P",
            "Q","R","S","T","U","V","W","X","Y","Z" >>
Lower == << "a","b","c","d","e","f","g","h","i","j","k","l","m","n","o","p",
            "q","r","s","t","u","v","w","x","y","z" >>
Space == {" ", "\t", "\n", "\r"}

ToLowerChar(c) ==
  IF \E i \in 1..Len(Upper) : Upper[i] = c
  THEN Lower[CHOOSE i \in 1..Len(Upper) : Upper[i] = c]
  ELSE c
\* strings.ToLower (part_003:41,56)
ToLower(s) == [i \in 1..Len(s) |-> ToLowerChar(s[i])]

\* strings.TrimSpace (part_003:41)
TrimSpace(s) ==
  LET keep == {i \in 1..Len(s) : s[i] \notin Space}
  IN IF keep = {} THEN << >>
     ELSE SubSeq(s, CHOOSE i \in keep : \A j \in keep : i <= j,
                    CHOOSE i \in keep : \A j \in keep : i >= j)

\* strings.Contains (part_003:56)
Contains(s, sub) ==
  \E i \in 1..(Len(s) + 1) :
     /\ i + Len(sub) - 1 <= Len(s)
     /\ SubSeq(s, i, i + Len(sub) - 1) = sub

\* filepath.Base with the separator "/" (part_003:50): trailing separators
\* are dropped, the last element is taken, "." stands for the empty path and
\* "/" for a path of separators only.
RECURSIVE StripTrailingSep(_)
StripTrailingSep(s) ==
  IF Len(s) > 0 /\ s[Len(s)] = "/"
  THEN StripTrailingSep(SubSeq(s, 1, Len(s) - 1))
  ELSE s
LastElement(s) ==
  LET seps == {i \in 1..Len(s) : s[i] = "/"}
  IN IF seps = {} THEN s
     ELSE SubSeq(s, (CHOOSE i \in seps : \A j \in seps : i >= j) + 1, Len(s))
Base(path) ==
  IF path = << >> THEN << "." >>
  ELSE LET t == LastElement(StripTrailingSep(path))
       IN IF t = << >> THEN << "/" >> ELSE t

\* The decimal digits of fmt.Sprintf("%d", n), n >= 0 (part_003:53).
Digits == << "0","1","2","3","4","5","6","7","8","9" >>
RECURSIVE Itoa(_)
Itoa(n) == IF n < 10 THEN << Digits[n + 1] >>
           ELSE Itoa(n \div 10) \o << Digits[(n % 10) + 1] >>
\* fmt.Sprintf("PID %d", p.Pid) (part_003:53)
PidName(pid) == << "P", "I", "D", " " >> \o Itoa(pid)

\* The display name of a process (part_003:47-55, processes.go:37-45).
ResolveNameNoFallback(p) == p.name
ResolveName(p) ==
  IF p.name # << >> THEN p.name
  ELSE LET fromExe == IF ~p.exeErr /\ p.exe # << >> THEN Base(p.exe)
                      ELSE << >>
       IN IF fromExe = << >> THEN PidName(p.pid) ELSE fromExe

\* Program constants of the limit clamp (part_003:28-36).
DefaultLimit == 200
MaxLimit == 500
MaxLimitWithMetrics == 100
BytesPerMB == 1048576
\* largest decimal exponent of a float64
MaxFloatExp == 308

\* The effective limit (part_003:28-36).
ClampLimitNoCap(limit, withMetrics) ==
  IF limit <= 0 THEN DefaultLimit ELSE limit
ClampLimit(limit, withMetrics) ==
  LET l1 == IF limit <= 0 THEN DefaultLimit ELSE limit
      l2 == IF l1 > MaxLimit THEN MaxLimit ELSE l1
  IN IF withMetrics /\ l2 > MaxLimitWithMetrics THEN MaxLimitWithMetrics
     ELSE l2

\* One ProcessInfo (part_003:59-75).  A per-process query that fails leaves
\* its field at the zero value.
MakeInfo(p, name, withMetrics) ==
  [ PID |-> p.pid,
    Name |-> name,
    RSSMB |-> IF p.mem.ok THEN p.mem.v \div BytesPerMB ELSE 0,
    Status |-> IF p.status.ok /\ Len(p.status.v) > 0 THEN p.status.v[1]
               ELSE << >>,
    CPUPercent |-> IF withMetrics /\ p.cpu.ok THEN p.cpu.v ELSE 0,
    ConnectionsCount |-> IF withMetrics /\ p.conns.ok THEN p.conns.v ELSE 0 ]

\* One iteration of the loop over the process table (part_003:43-76) for
\* process p: the break when the list is full, the name, the filter, the
\* record.
ListBodyNoFilter(out, p, limit, query, withMetrics) ==
  IF Len(out) >= limit THEN out
  ELSE Append(out, MakeInfo(p, ResolveName(p), withMetrics))
ListBody(out, p, limit, query, withMetrics) ==
  IF Len(out) >= limit THEN out
  ELSE LET name == ResolveName(p)
       IN IF query # << >> /\ ~Contains(ToLower(name), query)
          THEN out
          ELSE Append(out, MakeInfo(p, name, withMetrics))

\* The iterations for ps[lo], ..., ps[hi] in this order, starting from out;
\* once the list is full the break ends the loop.  (The range is halved to
\* keep the evaluation shallow.)
RECURSIVE ListLoopBackwards(_, _, _, _, _, _, _)
ListLoopBackwards(ps, lo, hi, out, limit, query, withMetrics) ==
  IF lo > hi THEN out
  ELSE IF lo = hi THEN ListBody(out, ps[lo], limit, query, withMetrics)
  ELSE LET mid == (lo + hi) \div 2
           right == ListLoopBackwards(ps, mid + 1, hi, out, limit, query,
                                      withMetrics)
       IN IF Len(right) >= limit THEN right
          ELSE ListLoopBackwards(ps, lo, mid, right, limit, query, withMetrics)
RECURSIVE ListLoop(_, _, _, _, _, _, _)
ListLoop(ps, lo, hi, out, limit, query, withMetrics) ==
  IF lo > hi THEN out
  ELSE IF lo = hi THEN ListBody(out, ps[lo], limit, query, withMetrics)
  ELSE LET mid == (lo + hi) \div 2
           left == ListLoop(ps, lo, mid, out, limit, query, withMetrics)
       IN IF Len(left) >= limit THEN left
          ELSE ListLoop(ps, mid + 1, hi, left, limit, query, withMetrics)

\* ListProcesses(limit, query, withMetrics) (part_003:27-78); the version of
\* processes.go:20-59 is the case withMetrics = FALSE.
ListProcesses(ps, failed, limit, query, withMetrics) ==
  IF failed THEN [out |-> << >>, err |-> TRUE]
  ELSE [out |-> ListLoop(ps, 1, Len(ps), << >>,
                         ClampLimit(limit, withMetrics),
                         TrimSpace(ToLower(query)), withMetrics),
        err |-> FALSE]

(* Inputs of the lister. *)
Ok(v) == [ok |-> TRUE, v |-> v]
Err == [ok |-> FALSE, v |-> 0]
ErrSeq == [ok |-> FALSE, v |-> << >>]

\* The kinds of process the table is built from.
ProcKinds ==
  << [name |-> <<"s","h">>, exe |-> <<"/","b","i","n","/","s","h">>,
      exeErr |-> FALSE, mem |-> Ok(3 * BytesPerMB + 17),
      status |-> Ok(<< <<"S">> >>), cpu |-> Ok(45), conns |-> Ok(2)],
     [name |-> << >>, exe |-> <<"/","o","p","t","/","C","h","/">>,
      exeErr |-> FALSE, mem |-> Err,
      status |-> ErrSeq, cpu |-> Ok(0), conns |-> Err],
     [name |-> << >>, exe |-> << >>,
      exeErr |-> TRUE, mem |-> Ok(BytesPerMB - 1),
      status |-> Ok(<< >>), cpu |-> Ok(12), conns |-> Ok(0)],
     [name |-> << >>, exe |-> << >>,
      exeErr |-> FALSE, mem |-> Ok(0),
      status |-> Ok(<< <<"R">>, <<"S">> >>), cpu |-> Ok(-1), conns |-> Ok(1)],
     [name |-> << >>, exe |-> <<"/">>,
      exeErr |-> FALSE, mem |-> Ok(2 * BytesPerMB),
      status |-> Ok(<< <<"Z">> >>), cpu |-> Err, conns |-> Ok(3)],
     [name |-> <<"S","h"," ","d">>, exe |-> << >>,
      exeErr |-> TRUE, mem |-> Err,
      status |-> ErrSeq, cpu |-> Ok(7), conns |-> Err] >>

\* A process table of n entries with PIDs 1..n, kinds rotating from rot.
Table(n, rot) ==
  [i \in 1..n |->
     LET k == ProcKinds[((i + rot) % Len(ProcKinds)) + 1]
     IN [pid |-> i, name |-> k.name, exe |-> k.exe, exeErr |-> k.exeErr,
         mem |-> k.mem, status |-> k.status, cpu |-> k.cpu,
         conns |-> k.conns]]

\* A table of three named processes, enumerated in an order that is not the
\* order of their PIDs.
NamedTable ==
  LET k == ProcKinds[1]
      named(pid, name) ==
        [pid |-> pid, name |-> name, exe |-> k.exe, exeErr |-> k.exeErr,
         mem |-> k.mem, status |-> k.status, cpu |-> k.cpu, conns |-> k.conns]
  IN << named(3, <<"C","h","r","o","m","e",".","e","x","e">>),
        named(1, <<"n","o","t","c","h","r","o","m","e">>),
        named(2, <<"F","i","r","e","f","o","x">>) >>

Tables ==
  { Table(n, rot) : n \in 0..SmallProcs, rot \in 0..(Len(ProcKinds) - 1) }
  \cup { Table(n, 0) : n \in {MaxLimitWithMetrics + 1, DefaultLimit + 1, MaxProcs} }
  \cup { NamedTable }

Limits == { -1, 0, 1, 2, 3, MaxLimitWithMetrics - 1, MaxLimitWithMetrics,
            MaxLimitWithMetrics + 1, DefaultLimit, DefaultLimit + 1, MaxLimit,
            MaxLimit + 1, 20 * MaxLimit }

Queries == { << >>, <<"s","h">>, <<" ","S","H","\t">>, <<"p","i","d"," ","1">>,
             <<"c","h","r","o","m","e">>, <<" ">> }

ListIdle ==
  /\ procs = << >>
  /\ procsErr = FALSE
  /\ limitIn = 0
  /\ queryIn = << >>
  /\ withMetricsIn = FALSE
  /\ listPc = "idle"
  /\ listOut = << >>
  /\ listErr = FALSE

\* A caller invokes ListProcesses on the current process table.
CallListUnderRLock ==
  /\ listPc = "ready" /\ CanRLock(mu)
  /\ LET r == ListProcesses(procs, procsErr, limitIn, queryIn, withMetricsIn)
     IN listOut' = r.out /\ listErr' = r.err
  /\ listPc' = "done"
  /\ UNCHANGED <<procs, procsErr, limitIn, queryIn, withMetricsIn>>
  /\ UNCHANGED <<collVars, auxVars>>
CallList ==
  /\ listPc = "ready"
  /\ LET r == ListProcesses(procs, procsErr, limitIn, queryIn, withMetricsIn)
     IN listOut' = r.out /\ listErr' = r.err
  /\ listPc' = "done"
  /\ UNCHANGED <<procs, procsErr, limitIn, queryIn, withMetricsIn>>
  /\ UNCHANGED <<collVars, auxVars>>

(* ------------------------- top processes by CPU ------------------------- *)
\* Program constants of the limit clamp (part_003:82-87).
TopDefaultLimit == 5
TopMaxLimit == 20

\* The effective limit of ListTopProcessesByCPU (part_003:82-87).
ClampTopLimitNoCap(limit) == IF limit <= 0 THEN TopDefaultLimit ELSE limit
ClampTopLimit(limit) ==
  LET l1 == IF limit <= 0 THEN TopDefaultLimit ELSE limit
  IN IF l1 > TopMaxLimit THEN TopMaxLimit ELSE l1

\* The record appended to scoredList for process p (part_003:98-115).
MakeScored(p) ==
  [ info |-> [ PID |-> p.pid,
               Name |-> ResolveName(p),
               RSSMB |-> IF p.mem.ok THEN p.mem.v \div BytesPerMB ELSE 0,
               Status |-> << >>,
               CPUPercent |-> p.cpu.v,
               ConnectionsCount |-> 0 ],
    score |-> p.cpu.v ]

\* A process is skipped when its CPU query fails or reports nothing
\* positive (part_003:107-110).
TopSkips(p) == ~p.cpu.ok \/ p.cpu.v <= 0

\* scoredList after the loop over the process table (part_003:96-116).
ScoredList(ps) ==
  LET Kept(p) == ~TopSkips(p)
      kept == SelectSeq(ps, Kept)
  IN [i \in 1..Len(kept) |-> MakeScored(kept[i])]

\* The less function handed to sort.Slice (part_003:117).
ScoreLessAscending(a, b) == a.score < b.score
ScoreLess(a, b) == a.score > b.score

\* The orders sort.Slice can leave the elements sl[i], i \in S, in: every
\* order in which no element is less than one before it.  sort.Slice is not
\* stable, so elements of equal score come in any order (part_003:117).
RECURSIVE SortedOrders(_, _)
SortedOrders(sl, S) ==
  IF S = {} THEN { << >> }
  ELSE UNION { { << sl[i] >> \o t : t \in SortedOrders(sl, S \ {i}) } :
               i \in { i \in S : \A j \in S : ~ScoreLess(sl[j], sl[i]) } }

\* The first limit elements of the sorted list (part_003:118-121).
TopPrefix(sorted, limit) ==
  [i \in 1..(IF limit < Len(sorted) THEN limit ELSE Len(sorted)) |->
     sorted[i].info]

\* The results ListTopProcessesByCPU(limit) can return (part_003:81-123).
ListTopProcessesByCPU(ps, failed, limit) ==
  IF failed THEN { [out |-> << >>, err |-> TRUE] }
  ELSE LET sl == ScoredList(ps)
       IN { [out |-> TopPrefix(sorted, ClampTopLimit(limit)), err |-> FALSE] :
            sorted \in SortedOrders(sl, DOMAIN sl) }

(* Inputs of ListTopProcessesByCPU. *)
\* Eight busy processes, several of them with the same CPU load.
TieTable ==
  LET load == << 5, 9, 5, 9, 3, 5, 1, 9 >>
      t == Table(Len(load), 0)
  IN [i \in 1..Len(load) |-> [t[i] EXCEPT !.cpu = Ok(load[i])]]

\* n busy processes, all with different CPU loads, in no particular order.
BusyTable(n) ==
  LET t == Table(n, 0)
  IN [i \in 1..n |->
        [t[i] EXCEPT !.cpu = Ok(IF i % 2 = 1 THEN i ELSE 100 - i)]]

TopTables ==
  { Table(n, rot) : n \in 0..SmallProcs, rot \in 0..(Len(ProcKinds) - 1) }
  \cup { TieTable, BusyTable(TopProcs) }

TopLimits == { -1, 0, 1, 3, TopDefaultLimit, TopMaxLimit, TopMaxLimit + 1 }

TopIdle ==
  /\ topLimitIn = 0
  /\ topPc = "idle"
  /\ topOut = << >>
  /\ topErr = FALSE

\* A caller invokes ListTopProcessesByCPU on the current process table.
CallTop ==
  /\ topPc = "ready"
  /\ \E r \in ListTopProcessesByCPU(procs, procsErr, topLimitIn) :
        topOut' = r.out /\ topErr' = r.err
  /\ topPc' = "done"
  /\ UNCHANGED topLimitIn
  /\ UNCHANGED <<collVars, listVars, gpuVars, killVars, httpVars>>

(* ------------------------------ KillProcess ----------------------------- *)
PidRange == 1..MaxPid

\* Error texts of the process library and the operating system.
ErrNotRunning == "process does not exist"
ErrNotPermitted == "operation not permitted"
ErrFinished == "os: process already finished"

\* process.NewProcess(pid) (part_003:127): the error it returns, "nil" when
\* the PID resolves to a process.
NewProcess(pid, alive) == IF pid \in alive THEN "nil" ELSE ErrNotRunning

\* p.Kill() (part_003:131): the outcome of one terminate request.
KillOutcome(pid, alive, prot) ==
  IF pid \notin alive THEN ErrFinished
  ELSE IF pid \in prot THEN ErrNotPermitted
  ELSE "nil"

\* if err != nil { return err } (part_003:128-130): where KillProcess goes
\* after process.NewProcess.
AfterNewProcessIgnoreErr(err) == "kill"
AfterNewProcess(err) == IF err # "nil" THEN "returned" ELSE "kill"

KillIdle ==
  /\ live = {}
  /\ protected = {}
  /\ killPid = 0
  /\ killPc = "idle"
  /\ killRet = "nil"
  /\ killCalls = 0
  /\ signals = << >>
  /\ sigBefore = 0
  /\ killResolved = FALSE

\* The entry of KillProcess(pid) (part_003:126).
EnterKill(pid) ==
  /\ killPid' = pid
  /\ killPc' = "resolve"
  /\ killRet' = "nil"
  /\ killCalls' = killCalls + 1
  /\ sigBefore' = Len(signals)
  /\ killResolved' = FALSE
  /\ UNCHANGED <<live, protected, signals>>

\* A caller invokes KillProcess(pid).
KillCall(pid) ==
  /\ killPc = "idle" /\ killCalls < MaxKillCalls
  /\ EnterKill(pid)
  /\ UNCHANGED <<collVars, listVars, gpuVars, topVars, httpVars>>

\* p, err := process.NewProcess(pid); if err != nil { return err }
\* (part_003:127-130)
KillResolve ==
  /\ killPc = "resolve"
  /\ LET err == NewProcess(killPid, live)
     IN /\ killResolved' = (err = "nil")
        /\ killRet' = err
        /\ killPc' = AfterNewProcess(err)
  /\ UNCHANGED <<live, protected, killPid, killCalls, signals, sigBefore>>
  /\ UNCHANGED <<collVars, listVars, gpuVars, topVars, httpVars>>

\* return p.Kill() (part_003:131)
KillSignal ==
  /\ killPc = "kill"
  /\ LET res == KillOutcome(killPid, live, protected)
     IN /\ signals' = Append(signals, <<killPid, res>>)
        /\ killRet' = res
        /\ live' = IF res = "nil" THEN live \ {killPid} ELSE live
  /\ killPc' = "returned"
  /\ UNCHANGED <<protected, killPid, killCalls, sigBefore, killResolved>>
  /\ UNCHANGED <<collVars, listVars, gpuVars, topVars, httpVars>>

\* The caller has the result and may call again.
KillReturn ==
  /\ killPc = "returned"
  /\ killPc' = "idle"
  /\ UNCHANGED <<live, protected, killPid, killRet, killCalls, signals,
                 sigBefore, killResolved>>
  /\ UNCHANGED <<collVars, listVars, gpuVars, topVars, httpVars>>

\* A process of the operating system exits on its own.
ProcExit(p) ==
  /\ p \in live
  /\ live' = live \ {p}
  /\ UNCHANGED <<protected, killPid, killPc, killRet, killCalls, signals,
                 sigBefore, killResolved>>
  /\ UNCHANGED <<collVars, listVars, gpuVars, topVars, httpVars>>

(* ------------------------------ HTTP handlers --------------------------- *)
\* The characters of a string.
Chars(s) == [i \in 1..Len(s) |-> SubSeq(s, i, i)]

\* strconv.Atoi (routes.go:45): an optional sign and decimal digits; more
\* than 19 digits are out of the range of int.
DigitVal(c) == CHOOSE d \in 0..9 : Digits[d + 1] = c
IsDigits(cs) ==
  /\ Len(cs) > 0
  /\ \A i \in 1..Len(cs) : \E d \in 1..Len(Digits) : Digits[d] = cs[i]
RECURSIVE DigitsValue(_)
DigitsValue(cs) ==
  IF Len(cs) = 0 THEN 0
  ELSE 10 * DigitsValue(SubSeq(cs, 1, Len(cs) - 1)) + DigitVal(cs[Len(cs)])
Atoi(cs) ==
  LET signed == Len(cs) > 0 /\ cs[1] \in {"+", "-"}
      ds == IF signed THEN SubSeq(cs, 2, Len(cs)) ELSE cs
  IN IF ~IsDigits(ds) \/ Len(ds) > 19 THEN [ok |-> FALSE, v |-> 0]
     ELSE [ok |-> TRUE,
           v |-> IF signed /\ cs[1] = "-" THEN 0 - DigitsValue(ds)
                 ELSE DigitsValue(ds)]

\* Response headers are a set of <<name, value>> pairs.
SetHeader(h, k, v) == { p \in h : p[1] # k } \cup { <<k, v>> }
DelHeaders(h, ks) == { p \in h : p[1] \notin ks }

\* setCORS (routes.go:12-16)
SetCORS(h) ==
  SetHeader(SetHeader(SetHeader(h,
    "Access-Control-Allow-Origin", "*"),
    "Access-Control-Allow-Methods", "GET, POST, OPTIONS"),
    "Access-Control-Allow-Headers", "Content-Type")

\* What has been written to the client: text or an encoded JSON value.
Text(s) == [kind |-> "text", text |-> s, val |-> << >>]
Json(v) == [kind |-> "json", text |-> "", val |-> v]

NoResponse == [hdr |-> {}, wroteHeader |-> FALSE, status |-> 0, sent |-> {},
               body |-> << >>]

\* ResponseWriter.WriteHeader: the status line and the headers as they are
\* now go out; a second call changes nothing.
WriteHeader(r, code) ==
  IF r.wroteHeader THEN r
  ELSE [r EXCEPT !.wroteHeader = TRUE, !.status = code, !.sent = r.hdr]

\* ResponseWriter.Write: an implicit WriteHeader(200), then the body.
Write(r, chunk) ==
  [WriteHeader(r, 200) EXCEPT !.body = Append(@, chunk)]

\* http.Error (routes.go:53,69,73,77): plain-text content type, the status,
\* the message and a newline.
HttpError(r, msg, code) ==
  LET h == SetHeader(SetHeader(
             DelHeaders(r.hdr, {"Content-Length", "Content-Encoding", "Etag",
                                "Last-Modified"}),
             "Content-Type", "text/plain; charset=utf-8"),
             "X-Content-Type-Options", "nosniff")
  IN Write(WriteHeader([r EXCEPT !.hdr = h], code), Text(msg \o "\n"))

\* json.NewEncoder(w).Encode(v)
Encode(r, v) == Write(r, Json(v))

\* json.NewDecoder(r.Body).Decode(&body) into struct{PID int32 `json:"pid"`}
\* (routes.go:65-68).  A body is text that is not JSON ("garbage"), null, an
\* object with or without a "pid" member, or another JSON value; a member is
\* an integer of the int32 range ("int"), a larger integer ("bigint"), a
\* fraction, a string, or null.
DecodeKillBody(b) ==
  CASE b.t = "null" -> [err |-> FALSE, PID |-> 0]
    [] b.t = "obj" ->
         CASE b.pid.t \in {"absent", "null"} -> [err |-> FALSE, PID |-> 0]
           [] b.pid.t = "int" -> [err |-> FALSE, PID |-> b.pid.v]
           [] OTHER -> [err |-> TRUE, PID |-> 0]
    [] OTHER -> [err |-> TRUE, PID |-> 0]

\* if body.PID <= 0 (routes.go:72)
PidInvalidNegativeOnly(pid) == pid < 0
PidInvalid(pid) == pid <= 0

\* The statements of the four handlers (routes.go:20-81) and of the RPC
\* methods that use the Collector (part_007:45-55, 112-145).
HandlerBodyCORSLate(route) ==
  CASE route = "stats" ->
         <<"setContentType", "Get", "Top", "EncodeStats", "setCORS">>
    [] route = "health" -> <<"setContentType", "EncodeHealth", "setCORS">>
    [] route = "processes" ->
         <<"setContentType", "Params", "List", "setCORS", "EncodeList">>
    [] route = "kill" ->
         <<"setContentType", "Method", "Decode", "setCORS", "CheckPid",
           "KillProcess", "KillResult", "EncodeOk">>
    [] route = "Health" -> <<"Get", "HealthReturn">>
    [] route = "Execute" -> <<"ExecuteReturn">>
    [] route = "Query" -> <<"QueryType", "Get", "QueryReturn">>
    [] route = "GetSnapshot" -> <<"Get", "SnapshotReturn">>
    [] route = "RestoreSnapshot" -> <<"RestoreReturn">>
HandlerBody(route) ==
  CASE route = "stats" ->
         <<"setCORS", "setContentType", "Get", "Top", "EncodeStats">>
    [] route = "health" -> <<"setCORS", "setContentType", "EncodeHealth">>
    [] route = "processes" ->
         <<"setCORS", "setContentType", "Params", "List", "EncodeList">>
    [] route = "kill" ->
         <<"setCORS", "setContentType", "Method", "Decode", "CheckPid",
           "KillProcess", "KillResult", "EncodeOk">>
    [] route = "Health" -> <<"Get", "HealthReturn">>
    [] route = "Execute" -> <<"ExecuteReturn">>
    [] route = "Query" -> <<"QueryType", "Get", "QueryReturn">>
    [] route = "GetSnapshot" -> <<"Get", "SnapshotReturn">>
    [] route = "RestoreSnapshot" -> <<"RestoreReturn">>

HLocalsInit ==
  [ stats |-> ZeroStats, topProcs |-> << >>, limit |-> 0, q |-> << >>,
    withMetrics |-> FALSE, list |-> << >>, decodeErr |-> FALSE, PID |-> 0 ]

NoRequest == [route |-> "none"]

HttpIdle ==
  /\ req = NoRequest
  /\ hpc = 0
  /\ hloc = HLocalsInit
  /\ resp = NoResponse

HAt(st) ==
  /\ hpc >= 1 /\ hpc <= Len(HandlerBody(req.route))
  /\ HandlerBody(req.route)[hpc] = st
HDone == hpc >= 1 /\ hpc > Len(HandlerBody(req.route))
\* the handler goes to its next statement / returns
HNext == hpc' = hpc + 1
HReturn == hpc' = Len(HandlerBody(req.route)) + 1

\* The error text of a failing process.Processes().
ErrProcesses == "open /proc: permission denied"

\* setCORS(w) (routes.go:21,35,41,60)
HSetCORS ==
  /\ HAt("setCORS")
  /\ resp' = [resp EXCEPT !.hdr = SetCORS(@)]
  /\ HNext
  /\ UNCHANGED <<req, hloc>>
  /\ UNCHANGED <<collVars, listVars, gpuVars, topVars, killVars>>

\* w.Header().Set("Content-Type", "application/json") (routes.go:22,36,42,61)
HSetContentType ==
  /\ HAt("setContentType")
  /\ resp' = [resp EXCEPT
               !.hdr = SetHeader(@, "Content-Type", "application/json")]
  /\ HNext
  /\ UNCHANGED <<req, hloc>>
  /\ UNCHANGED <<collVars, listVars, gpuVars, topVars, killVars>>

\* stats := collector.Get() (routes.go:23)
HGet ==
  /\ HAt("Get")
  /\ CanRLock(mu)
  /\ hloc' = [hloc EXCEPT !.stats = last]
  /\ HNext
  /\ UNCHANGED <<req, resp>>
  /\ UNCHANGED <<collVars, listVars, gpuVars, topVars, killVars>>

\* topProcs, _ := monitor.ListTopProcessesByCPU(5) (routes.go:24)
HTop ==
  /\ HAt("Top")
  /\ \E r \in ListTopProcessesByCPU(procs, procsErr, 5) :
        hloc' = [hloc EXCEPT !.topProcs = r.out]
  /\ HNext
  /\ UNCHANGED <<req, resp>>
  /\ UNCHANGED <<collVars, listVars, gpuVars, topVars, killVars>>

\* The Stats fields tagged omitempty (monitor.go:19-59).
OmitEmpty ==
  FieldSet \ { "CPUPercent", "MemoryPercent", "MemoryUsedMB", "MemoryTotalMB",
               "DiskPercent", "DiskUsedGB", "DiskTotalGB", "UptimeSec",
               "ProcessCount", "Timestamp" }

\* json.Marshal(stats) (routes.go:26, part_007:127,135): it fails on a float
\* that is NaN or an infinity; otherwise the object has every field but the
\* omitempty fields that are zero.
Marshal(st) ==
  IF \E f \in FieldSet : IsNonFinite(st[f])
  THEN [err |-> TRUE, data |-> << >>]
  ELSE [err |-> FALSE,
        data |-> [f \in {g \in FieldSet : ~(g \in OmitEmpty /\ IsZero(st[g]))}
                    |-> st[f]]]

\* The map built from the marshalled Stats plus "top_processes", or, when
\* the Stats cannot be marshalled, from the timestamp alone (routes.go:25-30).
StatsReplyNoFallback(st, top) ==
  [stats |-> Marshal(st).data, top_processes |-> top]
StatsReply(st, top) ==
  [ stats |-> IF ~Marshal(st).err THEN Marshal(st).data
              ELSE [f \in {"Timestamp"} |-> st[f]],
    top_processes |-> top ]

\* Encode(resp) (routes.go:31)
HEncodeStats ==
  /\ HAt("EncodeStats")
  /\ resp' = Encode(resp, StatsReply(hloc.stats, hloc.topProcs))
  /\ HNext
  /\ UNCHANGED <<req, hloc>>
  /\ UNCHANGED <<collVars, listVars, gpuVars, topVars, killVars>>

\* Encode(map[string]string{"status": "ok"}) (routes.go:37)
HEncodeHealth ==
  /\ HAt("EncodeHealth")
  /\ resp' = Encode(resp, [status |-> "ok"])
  /\ HNext
  /\ UNCHANGED <<req, hloc>>
  /\ UNCHANGED <<collVars, listVars, gpuVars, topVars, killVars>>

\* The query parameters limit, q and with_metrics (routes.go:43-50).
LimitParamAnyNumber(l) ==
  IF l # "" /\ Atoi(Chars(l)).ok THEN Atoi(Chars(l)).v ELSE 200
LimitParam(l) ==
  LET n == Atoi(Chars(l))
  IN IF l # "" /\ n.ok /\ n.v > 0 THEN n.v ELSE 200

HParams ==
  /\ HAt("Params")
  /\ hloc' = [hloc EXCEPT
               !.limit = LimitParam(req.limit),
               !.q = Chars(req.q),
               !.withMetrics = req.with_metrics \in {"1", "true"}]
  /\ HNext
  /\ UNCHANGED <<req, resp>>
  /\ UNCHANGED <<collVars, listVars, gpuVars, topVars, killVars>>

\* list, err := monitor.ListProcesses(limit, q, withMetrics) and the error
\* reply (routes.go:51-55).
HList ==
  /\ HAt("List")
  /\ LET r == ListProcesses(procs, procsErr, hloc.limit, hloc.q,
                            hloc.withMetrics)
     IN IF r.err
        THEN /\ resp' = HttpError(resp, ErrProcesses, 500)
             /\ HReturn
             /\ UNCHANGED hloc
        ELSE /\ hloc' = [hloc EXCEPT !.list = r.out]
             /\ HNext
             /\ UNCHANGED resp
  /\ UNCHANGED req
  /\ UNCHANGED <<collVars, listVars, gpuVars, topVars, killVars>>

\* Encode(list) (routes.go:56)
HEncodeList ==
  /\ HAt("EncodeList")
  /\ resp' = Encode(resp, hloc.list)
  /\ HNext
  /\ UNCHANGED <<req, hloc>>
  /\ UNCHANGED <<collVars, listVars, gpuVars, topVars, killVars>>

\* if r.Method == "OPTIONS" { return } (routes.go:62-64)
HMethod ==
  /\ HAt("Method")
  /\ IF req.method = "OPTIONS" THEN HReturn ELSE HNext
  /\ UNCHANGED <<req, hloc, resp>>
  /\ UNCHANGED <<collVars, listVars, gpuVars, topVars, killVars>>

\* Decode(&body) and the "invalid json" reply (routes.go:65-71).
HDecode ==
  /\ HAt("Decode")
  /\ LET d == DecodeKillBody(req.body)
     IN IF d.err
        THEN /\ resp' = HttpError(resp, "{\"error\":\"invalid json\"}", 400)
             /\ HReturn
             /\ hloc' = [hloc EXCEPT !.decodeErr = TRUE]
        ELSE /\ hloc' = [hloc EXCEPT !.PID = d.PID]
             /\ HNext
             /\ UNCHANGED resp
  /\ UNCHANGED req
  /\ UNCHANGED <<collVars, listVars, gpuVars, topVars, killVars>>

\* if body.PID <= 0 and the "invalid pid" reply (routes.go:72-75).
HCheckPid ==
  /\ HAt("CheckPid")
  /\ IF PidInvalid(hloc.PID)
     THEN /\ resp' = HttpError(resp, "{\"error\":\"invalid pid\"}", 400)
          /\ HReturn
     ELSE /\ HNext
          /\ UNCHANGED resp
  /\ UNCHANGED <<req, hloc>>
  /\ UNCHANGED <<collVars, listVars, gpuVars, topVars, killVars>>

\* The call monitor.KillProcess(body.PID) (routes.go:76).
HKillProcess ==
  /\ HAt("KillProcess") /\ killPc = "idle"
  /\ EnterKill(hloc.PID)
  /\ HNext
  /\ UNCHANGED <<req, hloc, resp>>
  /\ UNCHANGED <<collVars, listVars, gpuVars, topVars>>

\* KillProcess has returned: the reply carrying its error (routes.go:76-79).
HKillResult ==
  /\ HAt("KillResult") /\ killPc = "returned"
  /\ killPc' = "idle"
  /\ IF killRet # "nil"
     THEN /\ resp' = HttpError(resp,
                       "{\"error\":\"" \o killRet \o "\"}", 400)
          /\ HReturn
     ELSE /\ HNext
          /\ UNCHANGED resp
  /\ UNCHANGED <<req, hloc>>
  /\ UNCHANGED <<live, protected, killPid, killRet, killCalls, signals,
                 sigBefore, killResolved>>
  /\ UNCHANGED <<collVars, listVars, gpuVars, topVars>>

\* Encode(map[string]bool{"ok": true}) (routes.go:80)
HEncodeOk ==
  /\ HAt("EncodeOk")
  /\ resp' = Encode(resp, [ok |-> TRUE])
  /\ HNext
  /\ UNCHANGED <<req, hloc>>
  /\ UNCHANGED <<collVars, listVars, gpuVars, topVars, killVars>>

(* ----------------------------- RPC methods ------------------------------ *)
\* The float64 behind a sampled percentage, in hundredths of a percent.
Hundredths(v) ==
  IF IsZero(v) THEN 0
  ELSE (v[2] * 4321 + (IF v[1] = "mem" THEN 1571 ELSE 1237)) % 10000

\* fmt.Sprintf("%.1f", x) for 0 <= x <= 100, x given in hundredths
\* (part_007:51-52).
SprintfF1Truncated(h) ==
  Itoa(h \div 100) \o << "." >> \o Itoa((h \div 10) % 10)
SprintfF1(h) ==
  LET t == (h + 5) \div 10
  IN Itoa(t \div 10) \o << "." >> \o Itoa(t % 10)

\* EyeModule.Health (part_007:45-55): s := m.collector.Get() is the
\* statement before.
HHealthReturn ==
  /\ HAt("HealthReturn")
  /\ resp' = [ err |-> "nil", Healthy |-> TRUE, Message |-> "ok",
               Details |-> [ cpu_percent |->
                               SprintfF1(Hundredths(hloc.stats.CPUPercent)),
                             memory_percent |->
                               SprintfF1(Hundredths(hloc.stats.MemoryPercent)) ] ]
  /\ HNext
  /\ UNCHANGED <<req, hloc>>
  /\ UNCHANGED <<collVars, listVars, gpuVars, topVars, killVars>>

\* The reply of EyeModule.Execute (part_007:112-121).
ExecuteReplyRefreshOnly(id) ==
  IF id = "eye.refresh"
  THEN [err |-> "nil", Success |-> TRUE, Message |-> "Refreshed", Error |-> ""]
  ELSE [err |-> "nil", Success |-> FALSE, Message |-> "",
        Error |-> "unknown action"]
ExecuteReply(id) ==
  CASE id = "disconnect" ->
         [err |-> "nil", Success |-> TRUE, Message |-> "Stopped", Error |-> ""]
    [] id = "eye.refresh" ->
         [err |-> "nil", Success |-> TRUE, Message |-> "Refreshed",
          Error |-> ""]
    [] OTHER ->
         [err |-> "nil", Success |-> FALSE, Message |-> "",
          Error |-> "unknown action"]

HExecuteReturn ==
  /\ HAt("ExecuteReturn")
  /\ resp' = ExecuteReply(req.arg)
  /\ HNext
  /\ UNCHANGED <<req, hloc>>
  /\ UNCHANGED <<collVars, listVars, gpuVars, topVars, killVars>>

\* switch req.QueryType (part_007:124-130)
HQueryType ==
  /\ HAt("QueryType")
  /\ IF req.arg = "stats"
     THEN HNext /\ UNCHANGED resp
     ELSE /\ resp' = [err |-> "nil", Success |-> FALSE, Data |-> << >>,
                      Error |-> "unknown query"]
          /\ HReturn
  /\ UNCHANGED <<req, hloc>>
  /\ UNCHANGED <<collVars, listVars, gpuVars, topVars, killVars>>

\* data, _ := json.Marshal(s): the error is dropped and data is then nil
\* (part_007:127-128).
QueryReply(st) ==
  [err |-> "nil", Success |-> TRUE, Data |-> Marshal(st).data, Error |-> ""]

HQueryReturn ==
  /\ HAt("QueryReturn")
  /\ resp' = QueryReply(hloc.stats)
  /\ HNext
  /\ UNCHANGED <<req, hloc>>
  /\ UNCHANGED <<collVars, listVars, gpuVars, topVars, killVars>>

\* EyeModule.GetSnapshot (part_007:133-141); Timestamp is the time of the
\* call.
HSnapshotReturn ==
  /\ HAt("SnapshotReturn")
  /\ resp' = [ err |-> "nil", ModuleId |-> "eye", Timestamp |-> "now",
               State |-> Marshal(hloc.stats).data ]
  /\ HNext
  /\ UNCHANGED <<req, hloc>>
  /\ UNCHANGED <<collVars, listVars, gpuVars, topVars, killVars>>

\* A state blob: empty, bytes that are no JSON, or the State of a
\* GetSnapshot reply.
Blob(t, v) == [t |-> t, v |-> v]

\* What RestoreSnapshot makes of Collector.last (part_007:143-145): its
\* argument is not even named.
RestoreApplies(st, blob) ==
  IF blob.t = "state"
  THEN [f \in FieldSet |-> IF f \in DOMAIN blob.v THEN blob.v[f] ELSE Zero(0)]
  ELSE st
Restore(st, blob) == st

HRestoreReturn ==
  /\ HAt("RestoreReturn")
  /\ last' = Restore(last, req.arg)
  /\ resp' = [err |-> "nil", Success |-> TRUE, Message |-> "Restored"]
  /\ HNext
  /\ UNCHANGED <<req, hloc>>
  /\ UNCHANGED <<mu, tickC, tickerStopped, stopClosed, panicked, loopPc, stmt,
                 wcur, loc, outc, pass, rd, published, ticksSent, ticksRecv,
                 faultsLeft, stopCalls, stopInFlight, calls>>
  /\ UNCHANGED <<listVars, gpuVars, topVars, killVars>>

(* Requests. *)
Absent == [t |-> "absent", v |-> 0]
JsonMember(t, v) == [t |-> t, v |-> v]
Body(t, pid) == [t |-> t, pid |-> pid]

\* The values of the "pid" member of a JSON object.
PidMembers ==
  { Absent, JsonMember("null", 0), JsonMember("string", 0),
    JsonMember("bigint", 0), JsonMember("fraction", 0) }
  \cup { JsonMember("int", v) : v \in -1..(MaxPid + 1) }

KillBodies ==
  { Body("garbage", Absent), Body("null", Absent), Body("number", Absent) }
  \cup { Body("obj", m) : m \in PidMembers }

Request(route, method, limit, q, wm, body) ==
  [ route |-> route, method |-> method, limit |-> limit, q |-> q,
    with_metrics |-> wm, body |-> body, n |-> 1, prev |-> NoResponse ]

Requests ==
  { Request("stats", "GET", "", "", "", Body("none", Absent)),
    Request("health", "GET", "", "", "", Body("none", Absent)) }
  \cup { Request("processes", "GET", l, q, wm, Body("none", Absent)) :
           l \in {"", "abc", "0", "2", "700"}, q \in {"", "sh"},
           wm \in {"", "1", "true", "yes"} }
  \cup { Request("kill", "POST", "", "", "", b) : b \in KillBodies }

HttpTables == { Table(n, 0) : n \in {0, SmallProcs} } \cup { NamedTable }

\* The requests of a client that polls GET /api/processes
\* (api.ts:81-90).
PollRequests ==
  { Request("processes", "GET", l, q, wm, Body("none", Absent)) :
      l \in {"", "abc", "0", "-4", "+3", "2", "700", "99999999999999999999"},
      q \in {"", "chrome"},
      wm \in {"", "1", "true", "TRUE", "0"} }

\* The handler has returned and the client sends the same request again,
\* keeping the reply it got; the process table of the host may have changed
\* in between.  The handler closure has no variables of its own
\* (routes.go:40-57), so the new call starts from nothing.
HAccept ==
  /\ HDone /\ req.route = "processes" /\ req.n < MaxRequests
  /\ req' = [req EXCEPT !.n = @ + 1, !.prev = resp]
  /\ hpc' = 1
  /\ hloc' = HLocalsInit
  /\ resp' = NoResponse
  /\ procs' \in HttpTables
  /\ procsErr' \in BOOLEAN
  /\ UNCHANGED <<limitIn, queryIn, withMetricsIn, listPc, listOut, listErr>>
  /\ UNCHANGED <<collVars, gpuVars, topVars, killVars>>

\* An RPC of the hub.
Rpc(method, arg) ==
  [route |-> method, arg |-> arg, n |-> 1, prev |-> NoResponse]

\* The requests served while the loop samples: GET /api/stats and the RPC
\* methods that use the Collector.
ServeRequests ==
  { Request("stats", "GET", "", "", "", Body("none", Absent)),
    Rpc("Health", ""), Rpc("GetSnapshot", "") }
  \cup { Rpc("Execute", id) : id \in {"eye.refresh", "disconnect", "eye.stop"} }
  \cup { Rpc("Query", t) : t \in {"stats", "processes"} }
  \cup { Rpc("RestoreSnapshot", b) :
           b \in {Blob("empty", << >>), Blob("garbage", << >>)} }

\* The hub hands the State it got from GetSnapshot back to RestoreSnapshot
\* and then asks for the snapshot again.
RpcFollow ==
  /\ HDone
  /\ \/ /\ req.route = "GetSnapshot" /\ req.n = 1
        /\ req' = [Rpc("RestoreSnapshot", Blob("state", resp.State))
                     EXCEPT !.n = 2, !.prev = resp]
     \/ /\ req.route = "RestoreSnapshot" /\ req.n = 2
        /\ req' = [Rpc("GetSnapshot", "") EXCEPT !.n = 3, !.prev = req.prev]
  /\ hpc' = 1
  /\ hloc' = HLocalsInit
  /\ resp' = NoResponse
  /\ UNCHANGED <<collVars, listVars, gpuVars, topVars, killVars>>

(* ------------------------------ GPU probe ------------------------------- *)
\* Numbers that do not fit the model's integers are kept as their decimal
\* digits: StripZeros is the canonical form, DecLess the order.
RECURSIVE StripZeros(_)
StripZeros(ds) ==
  IF Len(ds) > 1 /\ ds[1] = "0" THEN StripZeros(Tail(ds)) ELSE ds
DecLess(a, b) ==
  \/ Len(a) < Len(b)
  \/ /\ Len(a) = Len(b)
     /\ \E i \in 1..Len(a) :
           /\ DigitVal(a[i]) < DigitVal(b[i])
           /\ \A j \in 1..(i - 1) : a[j] = b[j]
DecZero == << "0" >>
MaxUint64 == Chars("18446744073709551615")

\* strconv.ParseUint(s, 10, 64) (part_003:218): on a syntax error the value
\* is 0, on a range error it is the largest uint64.
ParseUint(cs) ==
  IF ~IsDigits(cs) THEN [err |-> "syntax", v |-> DecZero]
  ELSE IF DecLess(MaxUint64, StripZeros(cs))
  THEN [err |-> "range", v |-> MaxUint64]
  ELSE [err |-> "nil", v |-> StripZeros(cs)]

\* strings.TrimSuffix (part_003:183,193,217)
TrimSuffix(cs, suf) ==
  IF Len(cs) >= Len(suf) /\ SubSeq(cs, Len(cs) - Len(suf) + 1, Len(cs)) = suf
  THEN SubSeq(cs, 1, Len(cs) - Len(suf))
  ELSE cs

\* strings.Trim(s, cutset) for a cutset of one character (part_003:188)
TrimChar(cs, c) ==
  LET keep == {i \in 1..Len(cs) : cs[i] # c}
  IN IF keep = {} THEN << >>
     ELSE SubSeq(cs, CHOOSE i \in keep : \A j \in keep : i <= j,
                     CHOOSE i \in keep : \A j \in keep : i >= j)

\* strings.Split(s, sep), sep not empty (part_003:178)
RECURSIVE Split(_, _)
Split(cs, sep) ==
  LET at == {i \in 1..(Len(cs) - Len(sep) + 1) :
               SubSeq(cs, i, i + Len(sep) - 1) = sep}
  IN IF at = {} THEN << cs >>
     ELSE LET i == CHOOSE i \in at : \A j \in at : i <= j
          IN << SubSeq(cs, 1, i - 1) >>
             \o Split(SubSeq(cs, i + Len(sep), Len(cs)), sep)

\* bufio.Scanner: Scan() reports whether there is a first line, Text() is
\* that line without its end-of-line marker (part_003:172-176).
FirstLine(out) ==
  LET nl == {i \in 1..Len(out) : out[i] = "\n"}
      end == IF nl = {} THEN Len(out)
             ELSE (CHOOSE i \in nl : \A j \in nl : i <= j) - 1
      l == SubSeq(out, 1, end)
  IN [ ok |-> Len(out) > 0,
       text |-> IF nl # {} /\ Len(l) > 0 /\ l[Len(l)] = "\r"
                THEN SubSeq(l, 1, Len(l) - 1) ELSE l ]

\* strconv.ParseFloat(s, 64) for decimal notation (part_003:184): the value
\* is kept as canonical text.  On a syntax error the value is 0; a magnitude
\* beyond the float64 range gives an infinity together with a range error.
ParseFloat(cs) ==
  LET low == ToLower(cs)
      signed == Len(low) > 0 /\ low[1] \in {"+", "-"}
      neg == signed /\ low[1] = "-"
      body == IF signed THEN Tail(low) ELSE low
      es == Split(body, << "e" >>)
      ms == Split(es[1], << "." >>)
      ip == ms[1]
      fp == IF Len(ms) > 1 THEN ms[2] ELSE << >>
      ex == IF Len(es) > 1 THEN Atoi(es[2]) ELSE [ok |-> TRUE, v |-> 0]
      mantissaOk == /\ Len(ms) <= 2
                    /\ ip = << >> \/ IsDigits(ip)
                    /\ fp = << >> \/ IsDigits(fp)
                    /\ ip # << >> \/ fp # << >>
      isZero == \A i \in 1..Len(ip \o fp) : (ip \o fp)[i] = "0"
      inf == IF neg THEN Chars("-Inf") ELSE Chars("+Inf")
      RECURSIVE StripTrailingZeros(_)
      StripTrailingZeros(x) ==
        IF Len(x) > 0 /\ x[Len(x)] = "0"
        THEN StripTrailingZeros(SubSeq(x, 1, Len(x) - 1)) ELSE x
      frac == StripTrailingZeros(fp)
      text == (IF neg THEN << "-" >> ELSE << >>)
              \o StripZeros(IF ip = << >> THEN DecZero ELSE ip)
              \o (IF frac = << >> THEN << >> ELSE << "." >> \o frac)
              \o (IF ex.v = 0 THEN << >> ELSE << "e" >> \o es[2])
  IN IF body \in {Chars("inf"), Chars("infinity")}
     THEN [err |-> "nil", v |-> inf]
     ELSE IF body = Chars("nan") THEN [err |-> "nil", v |-> Chars("NaN")]
     ELSE IF ~mantissaOk \/ Len(es) > 2 \/ ~ex.ok
     THEN [err |-> "syntax", v |-> DecZero]
     ELSE IF isZero THEN [err |-> "nil", v |-> DecZero]
     ELSE IF ex.v > MaxFloatExp THEN [err |-> "range", v |-> inf]
     ELSE [err |-> "nil", v |-> text]

\* parseMiB (part_003:215-219)
ParseMiB(cs) == ParseUint(TrimSuffix(TrimSpace(cs), Chars(" MiB")))

\* GPUStats{} (part_003:147-153,169)
ZeroGPU ==
  [ UtilPercent |-> DecZero, Name |-> << >>, TempC |-> 0,
    MemoryUsedMB |-> DecZero, MemoryTotalMB |-> DecZero ]

\* The parsing of the tool's output (part_003:172-212).
ParseGPU(out) ==
  LET line == FirstLine(out)
      parts == Split(TrimSpace(line.text), << ",", " " >>)
      n == Len(parts)
      pct == ParseFloat(TrimSpace(TrimSuffix(TrimSpace(parts[1]),
                                             << "%" >>)))
      t == Atoi(TrimSpace(TrimSuffix(TrimSpace(parts[3]), << " ", "C" >>)))
  IN IF ~line.ok THEN ZeroGPU
     ELSE [ UtilPercent |-> pct.v,
            Name |-> IF n > 1 THEN TrimChar(TrimSpace(parts[2]), "\"")
                     ELSE << >>,
            TempC |-> IF n > 2 /\ t.ok THEN t.v ELSE 0,
            MemoryUsedMB |-> IF n > 3 THEN ParseMiB(parts[4]).v ELSE DecZero,
            MemoryTotalMB |-> IF n > 4 THEN ParseMiB(parts[5]).v
                              ELSE DecZero ]

\* The tool as the Collector's sub-query "gpu" sees it when its run is not
\* followed step by step.
AbstractTool == [kind |-> "abstract", out |-> << >>]

GpuIdle ==
  /\ gpuTool = AbstractTool
  /\ gpuPc = "idle"
  /\ gpuStats = ZeroGPU
  /\ gpuEnd = "none"

\* getGPUStats (part_003:157-213) once cmd.Run() has returned: any error of
\* Run gives the zero GPUStats.
ProbeResultIgnoreRunErr(runErr, out) == ParseGPU(out)
ProbeResult(runErr, out) == IF runErr THEN ZeroGPU ELSE ParseGPU(out)

\* context.WithTimeout + exec.CommandContext (part_003:158-161): while the
\* command runs, the deadline can end it.
RunNeverCancelled(cpc) == FALSE
RunCancellable(cpc) == cpc = "running"

\* The float64 values strconv.ParseFloat returns that are no numbers.
NonFiniteTexts == { Chars("+Inf"), Chars("-Inf"), Chars("NaN") }

\* A GPUStats field in the Collector's locals: zero, or a value of this pass.
GpuTag(isZero, n) == IF isZero THEN Zero(n) ELSE Val("gpu", n)

\* cmd.Run() has returned: getGPUStats returns its GPUStats and collect()
\* goes on with it (part_003:168-212, monitor.go:183).
ProbeReturns(runErr, how) ==
  LET st == ProbeResult(runErr, gpuTool.out)
  IN /\ gpuStats' = st
     /\ gpuEnd' = how
     /\ gpuPc' = "idle"
     /\ loc' = [loc EXCEPT
                  !.gpuUtil = IF st.UtilPercent \in NonFiniteTexts
                              THEN NonFinite(pass)
                              ELSE GpuTag(st.UtilPercent = DecZero, pass),
                  !.gpuName = GpuTag(st.Name = << >>, pass),
                  !.gpuTemp = GpuTag(st.TempC = 0, pass),
                  !.gpuMemUsed = GpuTag(st.MemoryUsedMB = DecZero, pass),
                  !.gpuMemTotal = GpuTag(st.MemoryTotalMB = DecZero, pass)]
     /\ outc' = [outc EXCEPT !["gpu"] = IF runErr THEN "err" ELSE "ok"]
     /\ calls' = calls + 1
     /\ Advance("ok")
     /\ UNCHANGED gpuTool

\* cmd.Run() starts the tool; a missing executable makes it fail at once
\* (part_003:161-168).
GpuStart ==
  /\ Alive /\ AtStmt("gpu")
  /\ gpuTool.kind # "abstract" /\ gpuPc = "idle"
  /\ IF gpuTool.kind = "missing"
     THEN ProbeReturns(TRUE, "missing")
     ELSE /\ gpuPc' = "running"
          /\ UNCHANGED <<gpuTool, gpuStats, gpuEnd, loc, outc, calls, loopPc,
                         stmt>>
  /\ UNCHANGED <<listVars, topVars, killVars, httpVars>>
  /\ UNCHANGED <<last, mu, tickC, tickerStopped, stopClosed, panicked, wcur,
                 pass, rd, published, ticksSent, ticksRecv, faultsLeft,
                 stopCalls, stopInFlight>>

\* The tool exits by itself, with status 0 or not (part_003:168).
GpuExit ==
  /\ Alive /\ AtStmt("gpu") /\ gpuPc = "running"
  /\ gpuTool.kind \in {"exit0", "exit1"}
  /\ ProbeReturns(gpuTool.kind = "exit1", gpuTool.kind)
  /\ UNCHANGED <<listVars, topVars, killVars, httpVars>>
  /\ UNCHANGED <<last, mu, tickC, tickerStopped, stopClosed, panicked, wcur,
                 pass, rd, published, ticksSent, ticksRecv, faultsLeft,
                 stopCalls, stopInFlight>>

\* The 3-second deadline passes first: the tool is killed and cmd.Run()
\* returns an error (part_003:158-170).
GpuDeadline ==
  /\ Alive /\ AtStmt("gpu") /\ RunCancellable(gpuPc)
  /\ ProbeReturns(TRUE, "deadline")
  /\ UNCHANGED <<listVars, topVars, killVars, httpVars>>
  /\ UNCHANGED <<last, mu, tickC, tickerStopped, stopClosed, panicked, wcur,
                 pass, rd, published, ticksSent, ticksRecv, faultsLeft,
                 stopCalls, stopInFlight>>

\* A direct call of the parsing part of getGPUStats on the output of a
\* tool that ran to a successful end (part_003:172-212).
ProbeParse ==
  /\ gpuPc = "call"
  /\ gpuStats' = ProbeResult(FALSE, gpuTool.out)
  /\ gpuEnd' = "exit0"
  /\ gpuPc' = "returned"
  /\ UNCHANGED gpuTool
  /\ UNCHANGED <<collVars, listVars, topVars, killVars, httpVars>>

(* Inputs of the GPU probe. *)
Tool(kind, text) == [kind |-> kind, out |-> Chars(text)]

GoodLine == "35, NVIDIA GeForce RTX 3060, 49, 2048, 12288\n"

\* The tools the sampling loop is run against.
GpuTools ==
  { Tool("missing", ""), Tool("hang", ""), Tool("hang", GoodLine),
    Tool("exit1", ""), Tool("exit1", GoodLine),
    Tool("exit0", ""), Tool("exit0", GoodLine),
    Tool("exit0", "35, NVIDIA GeForce RTX 3060, 49\n") }

\* The texts of each of the five fields, and the lines made of the first k
\* fields joined by ", ".
FieldTexts ==
  << {"35", " 35 %", "[N/A]", "1e999"},
     {"GTX", "\"Tesla T4\"", ""},
     {"49", "49 C", "x9"},
     {"2048", "2048 MiB", "[N/A]", "99999999999999999999"},
     {"12288", "-1"} >>

RECURSIVE Lines(_)
Lines(k) ==
  IF k = 1 THEN { << f >> : f \in FieldTexts[1] }
  ELSE { Append(l, f) : l \in Lines(k - 1), f \in FieldTexts[k] }

RECURSIVE Join(_, _)
Join(fs, sep) ==
  IF Len(fs) = 1 THEN fs[1]
  ELSE Join(SubSeq(fs, 1, Len(fs) - 1), sep) \o sep \o fs[Len(fs)]

\* A tool that reports, and one whose utilization field is no number.
ServeTools ==
  { Tool("exit0", GoodLine), Tool("exit0", "NaN, GTX, 49, 2048, 12288\n") }

ParseTools ==
  { [kind |-> "exit0", fields |-> l, out |-> Chars(Join(l, ", ") \o "\r\n")] :
      l \in UNION { Lines(k) : k \in 1..Len(FieldTexts) } }


(* ------------------------------ specifications -------------------------- *)
\* A healthy host serving concurrent Get() callers.
Init ==
  CollectorInit(Readers, 0) /\ ListIdle /\ TopIdle /\ KillIdle /\ HttpIdle
  /\ GpuIdle

\* A degraded host: the sampling loop alone, with failing sub-queries.
InitFaults ==
  CollectorInit({}, MaxFaults) /\ ListIdle /\ TopIdle /\ KillIdle /\ HttpIdle
  /\ GpuIdle

\* A call of the process lister on any table with any arguments.
InitList ==
  /\ CollectorInit({}, 0)
  /\ procs \in Tables
  /\ procsErr \in BOOLEAN
  /\ limitIn \in Limits
  /\ queryIn \in Queries
  /\ withMetricsIn \in BOOLEAN
  /\ listPc = "ready"
  /\ listOut = << >>
  /\ listErr = FALSE
  /\ TopIdle
  /\ KillIdle
  /\ HttpIdle
  /\ GpuIdle

NextList == CallList

\* A call of ListTopProcessesByCPU on any table with any limit.
InitTop ==
  /\ CollectorInit({}, 0)
  /\ procs \in TopTables
  /\ procsErr \in BOOLEAN
  /\ limitIn = 0
  /\ queryIn = << >>
  /\ withMetricsIn = FALSE
  /\ listPc = "idle"
  /\ listOut = << >>
  /\ listErr = FALSE
  /\ topLimitIn \in TopLimits
  /\ topPc = "ready"
  /\ topOut = << >>
  /\ topErr = FALSE
  /\ KillIdle
  /\ HttpIdle
  /\ GpuIdle

NextTop == CallTop

\* One HTTP request, of any route and content, served on any host.
InitHTTP ==
  /\ CollectorInit({}, 0)
  /\ procs \in HttpTables
  /\ procsErr \in BOOLEAN
  /\ limitIn = 0
  /\ queryIn = << >>
  /\ withMetricsIn = FALSE
  /\ listPc = "idle"
  /\ listOut = << >>
  /\ listErr = FALSE
  /\ TopIdle
  /\ live \in SUBSET PidRange
  /\ protected \in SUBSET PidRange
  /\ killPid = 0
  /\ killPc = "idle"
  /\ killRet = "nil"
  /\ killCalls = 0
  /\ signals = << >>
  /\ sigBefore = 0
  /\ killResolved = FALSE
  /\ req \in Requests
  /\ hpc = 1
  /\ hloc = HLocalsInit
  /\ resp = NoResponse
  /\ GpuIdle

\* A client polling GET /api/processes on a host whose process table
\* changes between the requests.
InitPoll ==
  /\ CollectorInit({}, 0)
  /\ procs \in HttpTables
  /\ procsErr \in BOOLEAN
  /\ limitIn = 0
  /\ queryIn = << >>
  /\ withMetricsIn = FALSE
  /\ listPc = "idle"
  /\ listOut = << >>
  /\ listErr = FALSE
  /\ TopIdle /\ KillIdle /\ GpuIdle
  /\ req \in PollRequests
  /\ hpc = 1
  /\ hloc = HLocalsInit
  /\ resp = NoResponse

NextPoll ==
  \/ HSetCORS
  \/ HSetContentType
  \/ HParams
  \/ HList
  \/ HEncodeList
  \/ HAccept

\* One caller that calls Get() again and again while the loop samples.
InitOrder ==
  /\ CollectorStart([r \in {1} |-> SameCaller], 0)
  /\ ListIdle /\ TopIdle /\ KillIdle /\ HttpIdle /\ GpuIdle

\* One request of the HTTP API or of the hub, served while the loop samples
\* on a host whose GPU tool reports a utilization or "NaN".  The listing of
\* the processes can fail; only GET /api/stats lists them.
InitServe ==
  /\ CollectorInit({}, 0)
  /\ procs = NamedTable
  /\ req \in ServeRequests
  /\ procsErr \in (IF req.route = "stats" THEN BOOLEAN ELSE {FALSE})
  /\ limitIn = 0
  /\ queryIn = << >>
  /\ withMetricsIn = FALSE
  /\ listPc = "idle"
  /\ listOut = << >>
  /\ listErr = FALSE
  /\ TopIdle /\ KillIdle
  /\ hpc = 1
  /\ hloc = HLocalsInit
  /\ resp = NoResponse
  /\ gpuTool \in ServeTools
  /\ gpuPc = "idle"
  /\ gpuStats = ZeroGPU
  /\ gpuEnd = "none"

\* The sampling loop on a host with any GPU tool.
InitGPU ==
  /\ CollectorInit({}, 0) /\ ListIdle /\ TopIdle /\ KillIdle /\ HttpIdle
  /\ gpuTool \in GpuTools
  /\ gpuPc = "idle"
  /\ gpuStats = ZeroGPU
  /\ gpuEnd = "none"

\* The parsing of any output of a tool that ended successfully.
InitGPUParse ==
  /\ CollectorInit({}, 0) /\ ListIdle /\ TopIdle /\ KillIdle /\ HttpIdle
  /\ gpuTool \in ParseTools
  /\ gpuPc = "call"
  /\ gpuStats = ZeroGPU
  /\ gpuEnd = "none"

NextGPUParse == ProbeParse

NextHTTP ==
  \/ HSetCORS
  \/ HSetContentType
  \/ HGet
  \/ HTop
  \/ HEncodeStats
  \/ HEncodeHealth
  \/ HParams
  \/ HList
  \/ HEncodeList
  \/ HMethod
  \/ HDecode
  \/ HCheckPid
  \/ HKillProcess
  \/ KillResolve
  \/ KillSignal
  \/ \E p \in PidRange : ProcExit(p)
  \/ HKillResult
  \/ HEncodeOk

\* Callers of KillProcess on a host with any set of processes.
InitKill ==
  /\ CollectorInit({}, 0) /\ ListIdle /\ TopIdle
  /\ live \in SUBSET PidRange
  /\ protected \in SUBSET PidRange
  /\ killPid = 0
  /\ killPc = "idle"
  /\ killRet = "nil"
  /\ killCalls = 0
  /\ signals = << >>
  /\ sigBefore = 0
  /\ killResolved = FALSE
  /\ HttpIdle
  /\ GpuIdle

NextKill ==
  \/ \E pid \in -1..(MaxPid + 1) : KillCall(pid)
  \/ KillResolve
  \/ KillSignal
  \/ KillReturn
  \/ \E p \in PidRange : ProcExit(p)

\* Callers of ListProcesses, ListTopProcessesByCPU and KillProcess on a host
\* where the Collector's loop is sampling.
InitIndep ==
  /\ CollectorInit({}, 0)
  /\ procs = NamedTable
  /\ procsErr = FALSE
  /\ limitIn = 0
  /\ queryIn = << >>
  /\ withMetricsIn = FALSE
  /\ listPc = "ready"
  /\ listOut = << >>
  /\ listErr = FALSE
  /\ topLimitIn = TopDefaultLimit
  /\ topPc = "ready"
  /\ topOut = << >>
  /\ topErr = FALSE
  /\ live = PidRange
  /\ protected = {}
  /\ killPid = 0
  /\ killPc = "idle"
  /\ killRet = "nil"
  /\ killCalls = 0
  /\ signals = << >>
  /\ sigBefore = 0
  /\ killResolved = FALSE
  /\ HttpIdle
  /\ GpuIdle

\* The loop goroutine, the timer and the owner of the Collector.
NextLoop ==
  \/ LoopStart
  \/ Query
  \/ LockAnnounce
  \/ LockAcquire
  \/ AssignFirst
  \/ AssignRest
  \/ Unlock
  \/ SelectStop
  \/ SelectTick
  \/ Tick
  \/ Stop

Next ==
  \/ NextLoop
  \/ \E r \in DOMAIN rd : RLock(r)
  \/ \E r \in DOMAIN rd : CopyFirst(r)
  \/ \E r \in DOMAIN rd : CopyRest(r)
  \/ \E r \in DOMAIN rd : Return(r)

NextGPU ==
  \/ NextLoop
  \/ GpuStart
  \/ GpuExit
  \/ GpuDeadline

\* The loop is not stopped while the request is served.
NextServe ==
  \/ LoopStart
  \/ Query
  \/ LockAnnounce
  \/ LockAcquire
  \/ AssignFirst
  \/ AssignRest
  \/ Unlock
  \/ SelectTick
  \/ Tick
  \/ GpuStart
  \/ GpuExit
  \/ GpuDeadline
  \/ HSetCORS
  \/ HSetContentType
  \/ HGet
  \/ HTop
  \/ HEncodeStats
  \/ HHealthReturn
  \/ HExecuteReturn
  \/ HQueryType
  \/ HQueryReturn
  \/ HSnapshotReturn
  \/ HRestoreReturn
  \/ RpcFollow

NextIndep ==
  \/ LoopStart
  \/ Query
  \/ LockAnnounce
  \/ LockAcquire
  \/ AssignFirst
  \/ AssignRest
  \/ Unlock
  \/ SelectTick
  \/ Tick
  \/ CallList
  \/ CallTop
  \/ KillCall(1)
  \/ KillResolve
  \/ KillSignal
  \/ KillReturn

Spec == Init /\ [][Next]_vars

SpecFaults == InitFaults /\ [][NextLoop]_vars

SpecOrder == InitOrder /\ [][Next]_vars

\* The scheduler keeps running the loop goroutine, and a select that finds
\* the stop channel ready again and again takes that case in the end (the
\* runtime picks among the ready cases at random).
SpecStop ==
  /\ InitFaults /\ [][NextLoop]_vars
  /\ WF_vars(LoopStart) /\ WF_vars(Query)
  /\ WF_vars(LockAnnounce) /\ WF_vars(LockAcquire)
  /\ WF_vars(AssignFirst) /\ WF_vars(AssignRest) /\ WF_vars(Unlock)
  /\ SF_vars(SelectStop)

SpecList == InitList /\ [][NextList]_vars

SpecTop == InitTop /\ [][NextTop]_vars

SpecKill == InitKill /\ [][NextKill]_vars

SpecHTTP == InitHTTP /\ [][NextHTTP]_vars

SpecPoll == InitPoll /\ [][NextPoll]_vars

SpecServe == InitServe /\ [][NextServe]_vars

\* The scheduler keeps running the loop goroutine, and the runtime delivers
\* the deadline of the probe's context.
SpecGPU ==
  /\ InitGPU /\ [][NextGPU]_vars
  /\ WF_vars(LoopStart) /\ WF_vars(Query) /\ WF_vars(GpuStart)
  /\ WF_vars(GpuDeadline)
  /\ WF_vars(LockAnnounce) /\ WF_vars(LockAcquire)
  /\ WF_vars(AssignFirst) /\ WF_vars(AssignRest) /\ WF_vars(Unlock)

SpecGPUParse == InitGPUParse /\ [][NextGPUParse]_vars

SpecIndep == InitIndep /\ [][NextIndep]_vars

(* ------------------------------ claims ---------------------------------- *)
PassOf(v) == v[2]
Done(r) == rd[r].pc = "done"
SamePass(st, n) == \A f \in FieldSet : PassOf(st[f]) = n

\* C1: every Get() that has returned holds a record all of whose fields come
\* from one and the same collect pass, the one that was current when it took
\* the read lock (the zero-valued record counts as pass 0); this holds for
\* every interleaving with the loop's publish and with the other readers.
C1_SnapshotNeverTorn ==
  \A r \in DOMAIN rd : Done(r) => SamePass(rd[r].res, rd[r].seen)

\* Two concurrent callers hold results, one the snapshot of pass 1 and one
\* the snapshot of pass 2.
C1_Witness ==
  \E r1, r2 \in DOMAIN rd :
     /\ Done(r1) /\ Done(r2)
     /\ rd[r1].res.Timestamp = Val("clock", 1)
     /\ rd[r2].res.Timestamp = Val("clock", 2)

\* C2 as stated: every Get() after NewCollector has returned yields a
\* Snapshot of a completed collect pass, never the zero-valued record.
C2_FirstReadNeverEmpty ==
  \A r \in DOMAIN rd : Done(r) => rd[r].res # ZeroStats

\* C2 amended: the loop runs one complete pass before it first waits on the
\* ticker, and Get() returns the zero-valued record exactly when it took the
\* read lock before that first publish.
C2_FirstPassBeforeWait ==
  /\ loopPc \in {"select", "exited"} => published >= 1
  /\ published = 0 => ticksRecv = 0
  /\ \A r \in DOMAIN rd :
        Done(r) => (rd[r].res = ZeroStats <=> rd[r].seen = 0)

\* A Get() returned the snapshot of the first pass, which was published
\* before the loop received any tick, and another returned the zero record.
C2_Witness ==
  \E r1, r2 \in DOMAIN rd :
     /\ Done(r1) /\ rd[r1].res.Timestamp = Val("clock", 1) /\ ticksRecv = 0
     /\ Done(r2) /\ rd[r2].res = ZeroStats

\* C3 as stated: once Stop() has been called, Collector.last never changes.
C3_NoPublishAfterStopCall ==
  [][stopClosed => last' = last]_vars

\* C3 amended: once the loop has taken the stop case (ticker.Stop() called),
\* Collector.last never changes, whatever ticks are still in the channel.
C3_NoPublishAfterLoopStopped ==
  [][tickerStopped => (last' = last /\ published' = published)]_vars

\* The loop has exited on the stop signal with a tick left in the channel.
C3_Witness ==
  /\ tickerStopped /\ loopPc = "exited" /\ tickC = 1 /\ published >= 1

\* C4: while collect() gathers metrics the mutex is neither held nor
\* requested by the writer, so RLock() succeeds; the writer holds the lock
\* only at the assignment and its Unlock; and a Get() that took the read lock
\* while pass n was being gathered returns the snapshot of pass n - 1.
C4_GetNotBlockedBySampling ==
  /\ Sampling => (mu.w = "free" /\ CanRLock(mu))
  /\ mu.w = "held" => (AtStmt("Assign") \/ AtStmt("Unlock"))
  /\ \A r \in DOMAIN rd :
        (Done(r) /\ rd[r].during > 0)
           => SamePass(rd[r].res, rd[r].during - 1)

\* A Get() started and finished while pass 2 was still being gathered, and
\* returned the snapshot of pass 1; another Get() is in progress.
C4_Witness ==
  \E r1, r2 \in DOMAIN rd :
     /\ r1 # r2
     /\ Sampling /\ pass = 2
     /\ Done(r1) /\ rd[r1].during = 2
     /\ rd[r1].res.Timestamp = Val("clock", 1)
     /\ rd[r2].pc \in {"copy", "copy2"}

\* The Stats fields each sub-query supplies (monitor.go:193-227).
OwnedFields(q) ==
  CASE q = "cpuPercent" -> {"CPUPercent"}
    [] q = "cpuInfo" -> {"CPUModelName", "CPUMhz"}
    [] q = "cpuCountsLogical" -> {}
    [] q = "cpuCountsPhysical" -> {"CPUPhysicalCores"}
    [] q = "mem" -> {"MemoryPercent", "MemoryUsedMB", "MemoryTotalMB",
                     "MemoryFreeMB", "MemoryAvailableMB"}
    [] q = "swap" -> {"SwapTotalMB", "SwapUsedMB", "SwapFreeMB"}
    [] q = "disk" -> {"DiskPercent", "DiskUsedGB", "DiskTotalGB", "DiskFreeGB"}
    [] q = "host" -> {"Hostname", "Platform", "OS", "KernelArch",
                      "KernelVersion", "UptimeSec"}
    [] q = "pids" -> {"ProcessCount"}
    [] q = "gpu" -> {"GPUPercent", "GPUName", "GPUTempC", "GPUMemoryUsedMB",
                     "GPUMemoryTotalMB"}
    [] q = "net" -> {"NetBytesSent", "NetBytesRecv"}

\* The loop is between passes: Collector.last is the record of pass `pass`.
BetweenPasses == loopPc \in {"select", "exited"} /\ pass >= 1

\* C5: after a pass in which sub-queries failed, the published Snapshot has
\* zero values in the fields of exactly the failed sub-queries, the sampled
\* values of this pass in the fields of every sub-query that succeeded, and
\* the timestamp of this pass.  (CPUCores is supplied by cpu.Counts(true)
\* and, when that fails, by the core sum of cpu.Info.)
C5_FailureDegradesOwnFieldsOnly ==
  BetweenPasses =>
    /\ last.Timestamp = Val("clock", pass)
    /\ \A q \in SubQ : \A f \in OwnedFields(q) :
          IF outc[q] = "ok" THEN last[f] = Val(q, pass) ELSE IsZero(last[f])
    /\ last.CPUCores =
          IF outc["cpuCountsLogical"] = "ok" THEN Val("cpuCountsLogical", pass)
          ELSE IF outc["cpuInfo"] = "ok" THEN Val("cpuInfo", pass)
          ELSE Zero(pass)

\* A pass whose GPU probe failed has been published: GPU fields zero, the
\* other sub-queries' fields sampled.
C5_Witness ==
  /\ BetweenPasses
  /\ outc["gpu"] = "err"
  /\ IsZero(last.GPUPercent) /\ IsZero(last.GPUName)
  /\ last.CPUPercent = Val("cpuPercent", pass)
  /\ last.NetBytesRecv = Val("net", pass)
  /\ last.Timestamp = Val("clock", pass)

\* C6: the loop has exited only if Stop() was called; it has started exactly
\* one pass at its entry plus one per tick it received; every started pass
\* is published (the one in progress excepted), whatever its sub-queries
\* returned; and a pass invokes each sub-query exactly once.
C6_LoopEndsOnlyByStop ==
  /\ loopPc = "exited" => stopClosed
  /\ loopPc # "spawned" => pass = ticksRecv + 1
  /\ published = IF loopPc = "collect" /\ ~AtStmt("Unlock")
                 THEN pass - 1 ELSE pass
  /\ calls = Cardinality({q \in SubQ : outc[q] # "none"})
  /\ BetweenPasses => calls = Len(SubQueries)

\* Every tick sent was received and every pass published although a
\* sub-query failed, and Stop() was never called.
C6_Witness ==
  /\ loopPc = "select" /\ ~stopClosed
  /\ ticksRecv = MaxTicks /\ ticksRecv >= 1 /\ published = ticksRecv + 1
  /\ faultsLeft < MaxFaults

\* C7: the loop leaves only from its select: when it has exited, every pass
\* it started has been published and the mutex is free; in particular the
\* pass that was in flight when Stop() was called has been published by the
\* time the loop is back at the select.
C7_InFlightPassCompletes ==
  /\ loopPc = "exited" => (published = pass /\ mu.w = "free" /\ wcur = 0)
  /\ (stopInFlight > 0 /\ loopPc \in {"select", "exited"})
        => published >= stopInFlight

\* Stop() was called during a pass, and that pass's record is the final
\* content of Collector.last after the loop has exited.
C7_Witness ==
  /\ stopInFlight >= 1 /\ loopPc = "exited"
  /\ last.Timestamp = Val("clock", stopInFlight)

\* C8: the first Stop() closes the channel without failure; every further
\* Stop() panics (close of a closed channel) instead of returning.
C8_StopIsOneShot ==
  /\ stopCalls = 0 => (~stopClosed /\ ~panicked)
  /\ stopCalls = 1 => (stopClosed /\ ~panicked)
  /\ stopCalls >= 2 => (stopClosed /\ panicked)

\* Stop() was called a second time and panicked.
C8_Witness == stopCalls = 2 /\ panicked /\ stopClosed

Min(a, b) == IF a <= b THEN a ELSE b

\* The effective limit as the claim states it.
C9_EffectiveLimit(limit, withMetrics) ==
  LET a == IF limit <= 0 THEN 200 ELSE IF limit > 500 THEN 500 ELSE limit
  IN IF withMetrics /\ a > 100 THEN 100 ELSE a

\* C9: the list returned by ListProcesses has at most the effective limit of
\* entries (limit <= 0 -> 200, limit > 500 -> 500, withMetrics -> at most
\* 100), and without a query exactly min(effective limit, table size).
C9_ListBoundedByEffectiveLimit ==
  (listPc = "done" /\ ~listErr) =>
    /\ Len(listOut) <= C9_EffectiveLimit(limitIn, withMetricsIn)
    /\ queryIn = << >> =>
         Len(listOut) = Min(C9_EffectiveLimit(limitIn, withMetricsIn),
                            Len(procs))

\* limit = 10000 on a table of more than 500 processes returned 500 entries.
C9_Witness ==
  /\ listPc = "done" /\ ~listErr
  /\ limitIn > 500 /\ ~withMetricsIn /\ Len(procs) > 500
  /\ Len(listOut) = 500

\* The name the claim's fallback chain gives a process.
C10_ChainName(p) ==
  IF p.name # << >> THEN p.name
  ELSE IF ~p.exeErr /\ p.exe # << >> THEN Base(p.exe)
  ELSE << "P", "I", "D", " " >> \o Itoa(p.pid)

\* C10: every returned record has a non-empty name, and it is the one the
\* fallback chain gives the process with that PID.
C10_NameNeverEmpty ==
  (listPc = "done" /\ ~listErr) =>
    \A i \in 1..Len(listOut) :
       /\ listOut[i].Name # << >>
       /\ \E j \in 1..Len(procs) :
             /\ procs[j].pid = listOut[i].PID
             /\ listOut[i].Name = C10_ChainName(procs[j])

\* A process with an empty reported name and no resolvable executable path
\* is listed as "PID 14", and one with only an executable path by its base.
C10_Witness ==
  /\ listPc = "done" /\ ~listErr
  /\ \E i, k \in 1..Len(listOut) :
        /\ procs[listOut[i].PID].name = << >>
        /\ procs[listOut[i].PID].exeErr
        /\ listOut[i].PID = 14
        /\ listOut[i].Name = << "P", "I", "D", " ", "1", "4" >>
        /\ procs[listOut[k].PID].name = << >>
        /\ listOut[k].Name = << "C", "h" >>

ListDone == listPc = "done" /\ ~listErr
NamesOf(out) == [i \in 1..Len(out) |-> out[i].Name]
PidsOf(out) == [i \in 1..Len(out) |-> out[i].PID]

\* C11 as stated: with a non-empty query every returned record's name
\* contains the query, compared case-insensitively.
C11_NamesContainQuery ==
  (ListDone /\ queryIn # << >>) =>
    \A i \in 1..Len(listOut) :
       Contains(ToLower(listOut[i].Name), ToLower(queryIn))

\* C11 amended: the query is lower-cased and stripped of surrounding white
\* space; when what remains is non-empty every returned record's name
\* contains it, compared case-insensitively, and when nothing remains no
\* record is filtered out.  For the processes "Chrome.exe", "notchrome" and
\* "Firefox" and the query "chrome" the first two are returned.
C11_NamesContainTrimmedQuery ==
  ListDone =>
    LET q == TrimSpace(ToLower(queryIn))
        L == C9_EffectiveLimit(limitIn, withMetricsIn)
    IN /\ q # << >> =>
            \A i \in 1..Len(listOut) : Contains(ToLower(listOut[i].Name), q)
       /\ q = << >> => Len(listOut) = Min(L, Len(procs))
       /\ (procs = NamedTable /\ q = <<"c","h","r","o","m","e">> /\ L >= 2) =>
            NamesOf(listOut) = << <<"C","h","r","o","m","e",".","e","x","e">>,
                                  <<"n","o","t","c","h","r","o","m","e">> >>

\* The query "chrome" on "Chrome.exe", "notchrome", "Firefox" returned the
\* first two.
C11_Witness ==
  /\ ListDone /\ procs = NamedTable
  /\ queryIn = <<"c","h","r","o","m","e">>
  /\ PidsOf(listOut) = <<3, 1>>

\* C12: the result is the first L processes of the enumeration whose
\* resolved name matches the query, L the effective limit, in enumeration
\* order: the processes that do not match are not counted.
C12_FirstMatchesInEnumerationOrder ==
  ListDone =>
    LET q == TrimSpace(ToLower(queryIn))
        L == C9_EffectiveLimit(limitIn, withMetricsIn)
        Matches(p) == q = << >> \/ Contains(ToLower(C10_ChainName(p)), q)
        sel == SelectSeq(procs, Matches)
    IN /\ Len(listOut) = Min(L, Len(sel))
       /\ \A k \in 1..Len(listOut) :
             /\ listOut[k].PID = sel[k].pid
             /\ listOut[k].Name = C10_ChainName(sel[k])

\* With limit 3 and the query "sh" on a table of more than 100 processes the
\* result is the 5th, 6th and 11th process: four non-matching processes
\* between them were skipped and later matches were cut off.
C12_Witness ==
  /\ ListDone /\ Len(procs) > 100
  /\ limitIn = 3 /\ queryIn = <<"s","h">>
  /\ PidsOf(listOut) = <<5, 6, 11>>

TopDone == topPc = "done" /\ ~topErr
CpusOf(out) == [i \in 1..Len(out) |-> out[i].CPUPercent]
LoadsOf(ps) == [i \in 1..Len(ps) |-> ps[i].cpu]

\* The processes with a measured, positive CPU load.
Busy == { i \in 1..Len(procs) : procs[i].cpu.ok /\ procs[i].cpu.v > 0 }

\* C13 as stated: ListTopByCPU(5) returns at most 5 entries, each CPU% is
\* strictly greater than the next one, and none is <= 0.
C13_TopStrictlyDescending ==
  (TopDone /\ topLimitIn = 5) =>
    /\ Len(topOut) <= 5
    /\ \A i \in 1..(Len(topOut) - 1) :
          topOut[i].CPUPercent > topOut[i + 1].CPUPercent
    /\ \A i \in 1..Len(topOut) : topOut[i].CPUPercent > 0

\* C13 amended: ListTopByCPU(limit) returns min(L, number of busy processes)
\* entries, L = 5 for limit <= 0, 20 for limit > 20, else limit; they are
\* different busy processes (CPU% measured and > 0), no CPU% is less than the
\* next one, and no process left out has a CPU% greater than one returned.
\* For processes at 45%, 0%, 12% and -1% and limit 5 the result is [45%, 12%].
C13_TopDescending ==
  TopDone =>
    LET L == IF topLimitIn <= 0 THEN 5
             ELSE IF topLimitIn > 20 THEN 20 ELSE topLimitIn
        in == { i \in Busy : \E k \in 1..Len(topOut) :
                               /\ topOut[k].PID = procs[i].pid
                               /\ topOut[k].CPUPercent = procs[i].cpu.v }
    IN /\ Len(topOut) = Min(L, Cardinality(Busy))
       /\ Cardinality(in) = Len(topOut)
       /\ \A i \in 1..(Len(topOut) - 1) :
             topOut[i].CPUPercent >= topOut[i + 1].CPUPercent
       /\ \A i \in Busy \ in : \A k \in 1..Len(topOut) :
             procs[i].cpu.v <= topOut[k].CPUPercent
       /\ (LoadsOf(procs) = <<Ok(45), Ok(0), Ok(12), Ok(-1)>>
             /\ topLimitIn = 5) => CpusOf(topOut) = <<45, 12>>

\* For processes at 45%, 0%, 12% and -1%, ListTopByCPU(5) returned
\* [45%, 12%].
C13_Witness ==
  /\ TopDone /\ topLimitIn = 5
  /\ LoadsOf(procs) = <<Ok(45), Ok(0), Ok(12), Ok(-1)>>
  /\ CpusOf(topOut) = <<45, 12>>

\* C14: when KillProcess has returned: if the PID did not resolve, it
\* returned an error and issued no terminate request; if it resolved, it
\* issued exactly one terminate request, for that PID, and returned the
\* outcome of that request (nil or the error of the operating system).
\* While the call is in progress it has issued no request yet.
C14_KillResolvesThenSignalsOnce ==
  /\ killPc \in {"resolve", "kill"} => Len(signals) = sigBefore
  /\ killPc = "returned" =>
       IF killResolved
       THEN /\ Len(signals) = sigBefore + 1
            /\ signals[Len(signals)] = <<killPid, killRet>>
            /\ killRet \in {"nil", ErrNotPermitted, ErrFinished}
       ELSE /\ Len(signals) = sigBefore
            /\ killRet # "nil"

\* One call for a PID without a process returned an error without a
\* terminate request, and another terminated a process.
C14_Witness ==
  /\ killPc = "returned" /\ killCalls = 2
  /\ ~killResolved /\ killRet = ErrNotRunning
  /\ Len(signals) = 1 /\ signals[1][2] = "nil"

\* The request bodies the claim calls undecodable, and the pid of the others.
C15_Undecodable(b) ==
  ~(b.t = "null" \/ (b.t = "obj" /\ b.pid.t \in {"absent", "null", "int"}))
C15_Pid(b) == IF b.t = "obj" /\ b.pid.t = "int" THEN b.pid.v ELSE 0

\* C15: POST /api/processes/kill writes exactly one reply.  An undecodable
\* body gives 400 "invalid json" and a decoded pid <= 0 gives 400 "invalid
\* pid", both without a call of KillProcess; otherwise KillProcess is called
\* once with that pid, and its error gives 400 with the error's text, its
\* success 200 with {ok: true}.
C15_KillEndpointOutcomes ==
  req.route = "kill" =>
    LET bad == C15_Undecodable(req.body)
        pid == C15_Pid(req.body)
    IN /\ killCalls <= 1
       /\ killCalls = 1 => (~bad /\ pid > 0 /\ killPid = pid)
       /\ HDone =>
            /\ Len(resp.body) = 1
            /\ IF bad
               THEN /\ resp.status = 400 /\ killCalls = 0
                    /\ resp.body[1] = Text("{\"error\":\"invalid json\"}\n")
               ELSE IF pid <= 0
               THEN /\ resp.status = 400 /\ killCalls = 0
                    /\ resp.body[1] = Text("{\"error\":\"invalid pid\"}\n")
               ELSE /\ killCalls = 1 /\ killPc = "idle"
                    /\ IF killRet # "nil"
                       THEN /\ resp.status = 400
                            /\ resp.body[1] =
                                 Text("{\"error\":\"" \o killRet \o "\"}\n")
                       ELSE /\ resp.status = 200
                            /\ resp.body[1] = Json([ok |-> TRUE])

\* The kill of a protected process was refused and reported with status 400
\* and the error text of the operating system.
C15_Witness ==
  /\ req.route = "kill" /\ HDone
  /\ killCalls = 1 /\ killRet = ErrNotPermitted
  /\ resp.status = 400
  /\ resp.body = << Text("{\"error\":\"operation not permitted\"}\n") >>

\* The text is a JSON object {"error": "<message>"}, possibly followed by a
\* newline.
IsErrorObject(t) ==
  LET cs == Chars(t)
      n == IF Len(cs) > 0 /\ cs[Len(cs)] = "\n" THEN Len(cs) - 1 ELSE Len(cs)
      pre == Chars("{\"error\":\"")
  IN /\ n >= Len(pre) + 2
     /\ SubSeq(cs, 1, Len(pre)) = pre
     /\ SubSeq(cs, n - 1, n) = << "\"", "}" >>
     /\ \A i \in (Len(pre) + 1)..(n - 2) : cs[i] \notin {"\"", "\\", "\n"}

\* C19: every reply with an error status has status 400 or 500 and a body
\* that is a JSON object {"error": "<message>"}.
C19_ErrorBodiesAreJSON ==
  (HDone /\ resp.status >= 400) =>
    /\ resp.status \in {400, 500}
    /\ Len(resp.body) = 1
    /\ resp.body[1].kind = "text"
    /\ IsErrorObject(resp.body[1].text)

CORSHeaders ==
  { <<"Access-Control-Allow-Origin", "*">>,
    <<"Access-Control-Allow-Methods", "GET, POST, OPTIONS">>,
    <<"Access-Control-Allow-Headers", "Content-Type">> }

\* C20: in every handler the CORS headers are set by the first statement,
\* so they are among the headers that go out with the status line, whatever
\* the status; and every handler that has returned has written a reply.
C20_CORSOnEveryResponse ==
  /\ hpc >= 2 => CORSHeaders \subseteq resp.hdr
  /\ resp.wroteHeader => CORSHeaders \subseteq resp.sent
  /\ HDone => (resp.wroteHeader /\ Len(resp.body) = 1)

\* A failed process listing was answered with status 500 and a JSON success
\* of the health route with status 200, both with the CORS headers.
C20_Witness ==
  /\ HDone /\ CORSHeaders \subseteq resp.sent
  /\ \/ req.route = "processes" /\ resp.status = 500
     \/ req.route = "health" /\ resp.status = 200


GPUFields ==
  {"GPUPercent", "GPUName", "GPUTempC", "GPUMemoryUsedMB", "GPUMemoryTotalMB"}

ProbeFailed == gpuEnd \in {"missing", "exit1", "deadline"}

\* C16: when the tool is missing, exits non-zero or is ended by the
\* deadline, getGPUStats returns the zero GPUStats and the pass goes on as
\* after any other sub-query: all eleven sub-queries are made, the Snapshot
\* of this pass is published, and its five GPU fields are zero.
C16_ProbeFailureGivesZeroSample ==
  (BetweenPasses /\ ProbeFailed) =>
    /\ gpuStats = ZeroGPU
    /\ published = pass /\ calls = Len(SubQueries)
    /\ \A f \in GPUFields : IsZero(last[f])
    /\ \A f \in FieldSet : last[f][2] = pass

\* The tool printed a full line and then exited non-zero; the published
\* Snapshot has zero GPU fields next to the sampled ones.
C16_Witness ==
  /\ BetweenPasses /\ gpuEnd = "exit1" /\ gpuTool.out # << >>
  /\ \A f \in GPUFields : IsZero(last[f])
  /\ last.CPUPercent = Val("cpuPercent", pass)

\* What each of the five fields means taken alone: its parsed value when
\* the field is there and parses without error, zero otherwise.
FieldAlone(fs) ==
  LET n == Len(fs)
      pct == ParseFloat(TrimSpace(TrimSuffix(TrimSpace(fs[1]), << "%" >>)))
      t == Atoi(TrimSpace(TrimSuffix(TrimSpace(fs[3]), << " ", "C" >>)))
      used == ParseMiB(fs[4])
      total == ParseMiB(fs[5])
  IN [ UtilPercent |-> IF pct.err = "nil" THEN pct.v ELSE DecZero,
       Name |-> IF n > 1 THEN TrimChar(TrimSpace(fs[2]), "\"") ELSE << >>,
       TempC |-> IF n > 2 /\ t.ok THEN t.v ELSE 0,
       MemoryUsedMB |-> IF n > 3 /\ used.err = "nil" THEN used.v ELSE DecZero,
       MemoryTotalMB |-> IF n > 4 /\ total.err = "nil" THEN total.v
                         ELSE DecZero ]

FieldChars(fs) == [i \in 1..Len(fs) |-> Chars(fs[i])]

\* C17: after a successful run, every field of the returned GPUStats is the
\* value that field has taken alone: zero when it is missing or does not
\* parse, its parsed value otherwise, whatever the other fields are.
C17_FieldsDegradeIndependently ==
  gpuPc = "returned" => gpuStats = FieldAlone(FieldChars(gpuTool.fields))

C28_TopReturnsTheHighest ==
  TopDone =>
    LET L == IF topLimitIn <= 0 THEN 5
             ELSE IF topLimitIn > 20 THEN 20 ELSE topLimitIn
        n == Cardinality(Busy)
        Returned(i) == \E k \in 1..Len(topOut) : topOut[k].PID = procs[i].pid
    IN /\ Len(topOut) = (IF L < n THEN L ELSE n)
       /\ \A k \in 1..Len(topOut) :
            \E i \in Busy : /\ topOut[k].PID = procs[i].pid
                            /\ topOut[k].CPUPercent = procs[i].cpu.v
       /\ \A i \in Busy : ~Returned(i) =>
            \A k \in 1..Len(topOut) : procs[i].cpu.v <= topOut[k].CPUPercent

\* Twenty-two busy processes and a limit of 21: twenty entries came back.
C28_Witness ==
  /\ TopDone /\ topLimitIn = TopMaxLimit + 1
  /\ Cardinality(Busy) = TopProcs /\ Len(topOut) = TopMaxLimit


\* The limit the claim gives for a limit parameter: 200 when it is missing,
\* not a number or not positive, its value otherwise.
C29_Limit(l) ==
  LET cs == Chars(l)
      ds == IF Len(cs) > 0 /\ cs[1] \in {"+", "-"} THEN Tail(cs) ELSE cs
  IN IF l = "" \/ ~IsDigits(ds) \/ Len(ds) > 19 THEN 200
     ELSE IF cs[1] = "-" \/ DigitsValue(ds) = 0 THEN 200
     ELSE DigitsValue(ds)

\* C29: when GET /api/processes has answered, List was handed, and the
\* answer is that of, List(limit, q, withMetrics) on the process table as it
\* is during this request, with limit 200 for a missing, non-numeric or non-positive limit
\* parameter and its value otherwise, and withMetrics on only for
\* with_metrics "1" or "true": a failed listing gives status 500 and no
\* list, a listing gives 200 and the encoded list, whatever an earlier
\* request was answered.
C29_ProcessesEndpoint ==
  (req.route = "processes" /\ HDone) =>
    LET r == ListProcesses(procs, procsErr, C29_Limit(req.limit),
                           Chars(req.q), req.with_metrics \in {"1", "true"})
    IN /\ hloc.limit = C29_Limit(req.limit)
       /\ hloc.withMetrics = (req.with_metrics \in {"1", "true"})
       /\ Len(resp.body) = 1
       /\ IF r.err
          THEN resp.status = 500 /\ resp.body[1].kind = "text"
          ELSE resp.status = 200 /\ resp.body[1] = Json(r.out)

\* The second request of a polling client, with limit=2 and
\* with_metrics=true, got two entries with metrics from the changed table
\* where the first had failed with 500.
C29_Witness ==
  /\ req.route = "processes" /\ HDone /\ req.n = 2
  /\ req.limit = "2" /\ req.with_metrics = "true"
  /\ req.prev.status = 500
  /\ resp.status = 200
  /\ resp.body[1].kind = "json" /\ Len(resp.body[1].val) = 2


\* C30: never more than one collect pass is started and not yet published;
\* a pass starts only from the select, when the one before it is published
\* (so a tick that fires during a pass starts none); the cached Snapshot
\* goes from one pass to a later one only; and a caller that calls Get()
\* again and again never gets a Snapshot of an earlier pass than the one it
\* got before.
C30_SingleWriterInOrder ==
  /\ [](/\ pass - published \in {0, 1}
        /\ \A r \in DOMAIN rd :
             (Done(r) /\ rd[r].prev # << >>)
                => PassOf(rd[r].res.Timestamp) >= rd[r].prev[1])
  /\ [][/\ pass' # pass =>
             (pass' = pass + 1 /\ published = pass /\ loopPc # "collect")
        /\ published' \in {published, published + 1}
        /\ \A f \in FieldSet : PassOf(last'[f]) >= PassOf(last[f])]_vars

\* A caller that held the Snapshot of pass 1 called Get() again and holds
\* the Snapshot of pass 2, which a tick started.
C30_Witness ==
  /\ Done(1) /\ rd[1].prev = << 1 >>
  /\ rd[1].res.Timestamp = Val("clock", 2)
  /\ pass = 2 /\ ticksRecv = 1


\* C27: once the stop channel is closed, the loop eventually has stopped
\* its ticker and returned (unless a second Stop() has crashed the process),
\* whether or not ticks arrive meanwhile.
C27_LoopExitsAfterStop ==
  stopClosed ~> ((loopPc = "exited" /\ tickerStopped) \/ panicked)

\* Stop() was called once, during pass 1; the select then took a tick and
\* ran pass 2 before it took the stop case; the loop has exited.
C27_Witness ==
  /\ loopPc = "exited" /\ tickerStopped /\ ~panicked
  /\ stopCalls = 1 /\ stopInFlight = 1 /\ pass = 2 /\ published = 2


\* The decimal text, with one digit after the point, of the tenth nearest
\* to a value given in hundredths.
C22_OneDecimal(v) ==
  LET h == Hundredths(v)
      t == CHOOSE t \in 0..1000 : 10 * t - h \in -4..5
  IN Itoa(t \div 10) \o << "." >> \o Itoa(t % 10)

C23_ExecuteLeavesCollectorAlone ==
  /\ [](req.route = "Execute" /\ HDone =>
          /\ resp.err = "nil"
          /\ resp.Success = (req.arg \in {"eye.refresh", "disconnect"}))
  /\ [][(req.route = "Execute" /\ hpc' # hpc) =>
          /\ collVars' = collVars
          /\ gpuVars' = gpuVars]_vars

\* Execute("disconnect") has reported success; Stop() was never called and
\* the loop is in the middle of its second pass.
C23_Witness ==
  /\ req.route = "Execute" /\ req.arg = "disconnect" /\ HDone
  /\ resp.Success /\ resp.Message = "Stopped"
  /\ stopCalls = 0 /\ ~stopClosed /\ Sampling /\ pass = 2


\* data is the serialization of the Stats st: an object whose members are
\* fields of st with their values, the fields left out being zero in st.
Serializes(data, st) ==
  /\ DOMAIN data \subseteq FieldSet /\ "Timestamp" \in DOMAIN data
  /\ \A f \in FieldSet : IF f \in DOMAIN data THEN data[f] = st[f]
                         ELSE IsZero(st[f])

\* The Stats is one whole Snapshot, published or the zero record.
Whole(st) == \E n \in 0..published : SamePass(st, n)

HasNonFinite(st) == \E f \in FieldSet : IsNonFinite(st[f])

StatsDone == req.route = "stats" /\ HDone

\* C21 as stated: when GET /api/stats has answered, the reply is 200 and
\* holds the Snapshot Get() returned to the handler, with top_processes
\* merged in (null when the listing failed), and no step of the request
\* changes the Collector.
C21_StatsReturnsSnapshot ==
  StatsDone =>
    /\ resp.status = 200 /\ Len(resp.body) = 1 /\ resp.body[1].kind = "json"
    /\ Whole(hloc.stats)
    /\ Serializes(resp.body[1].val.stats, hloc.stats)
    /\ resp.body[1].val.top_processes = hloc.topProcs

\* C21 amended: the reply is 200 and holds top_processes, the result of
\* ListTopByCPU(5) or null when that listing failed, merged into the
\* Snapshot that Get() returned to the handler; when that Snapshot holds a
\* float that is NaN or infinite it cannot be serialized and the reply holds
\* its timestamp and top_processes only.  No step of the request starts a
\* pass or changes the cached Snapshot.
C21_StatsReturnsSnapshotOrTimestamp ==
  /\ [](StatsDone =>
          /\ resp.status = 200 /\ Len(resp.body) = 1
          /\ resp.body[1].kind = "json"
          /\ Whole(hloc.stats)
          /\ IF HasNonFinite(hloc.stats)
             THEN resp.body[1].val.stats
                    = [f \in {"Timestamp"} |-> hloc.stats.Timestamp]
             ELSE Serializes(resp.body[1].val.stats, hloc.stats)
          /\ resp.body[1].val.top_processes = hloc.topProcs
          /\ \E r \in ListTopProcessesByCPU(procs, procsErr, 5) :
                hloc.topProcs = r.out
          /\ procsErr => hloc.topProcs = << >>)
  /\ [][(req.route = "stats" /\ hpc' # hpc) =>
          /\ HAt("Get") => (hloc'.stats = last /\ mu.w = "free")
          /\ collVars' = collVars]_vars

\* The listing of the top processes failed; the reply still holds the
\* sampled Snapshot of pass 1, with top_processes null.
C21_Witness ==
  /\ StatsDone /\ procsErr /\ resp.status = 200
  /\ resp.body[1].val.top_processes = << >>
  /\ ~HasNonFinite(hloc.stats) /\ published = 1
  /\ resp.body[1].val.stats.Timestamp = Val("clock", 1)
  /\ "GPUPercent" \in DOMAIN resp.body[1].val.stats

\* C24: when Query "stats" or GetSnapshot has returned, it reports no error
\* (Query: success) and its data is the serialization of the one whole
\* Snapshot that Get() returned to it.
C24_QueryReturnsSerializedSnapshot ==
  (HDone /\ (req.route = "GetSnapshot"
               \/ (req.route = "Query" /\ req.arg = "stats"))) =>
    /\ resp.err = "nil"
    /\ Whole(hloc.stats)
    /\ IF req.route = "Query"
       THEN resp.Success /\ Serializes(resp.Data, hloc.stats)
       ELSE Serializes(resp.State, hloc.stats)

\* C25: RestoreSnapshot answers success, without error, for any blob, and
\* its step changes nothing of the Collector; a GetSnapshot after
\* RestoreSnapshot(GetSnapshot()) returns the State it returned before, or
\* that of a later pass if the loop has published meanwhile.
C25_RestoreIsNoOp ==
  /\ [](/\ (req.route = "RestoreSnapshot" /\ HDone) =>
             (resp.err = "nil" /\ resp.Success)
        /\ (req.route = "GetSnapshot" /\ req.n = 3 /\ HDone
              /\ ~HasNonFinite(hloc.stats) /\ req.prev.State # << >>) =>
             \/ resp.State = req.prev.State
             \/ PassOf(resp.State.Timestamp)
                  > PassOf(req.prev.State.Timestamp))
  /\ [][(req.route = "RestoreSnapshot" /\ hpc' # hpc) =>
          /\ collVars' = collVars
          /\ gpuVars' = gpuVars]_vars

\* GetSnapshot returned the Snapshot of pass 2 after RestoreSnapshot had
\* been handed the State of pass 1 and had reported success.
C25_Witness ==
  /\ req.route = "GetSnapshot" /\ req.n = 3 /\ HDone
  /\ req.prev.State # << >> /\ resp.State # << >>
  /\ req.prev.State.Timestamp = Val("clock", 1)
  /\ resp.State.Timestamp = Val("clock", 2)


\* A step of ListProcesses, ListTopProcessesByCPU or KillProcess.
ProcStep == listPc' # listPc \/ topPc' # topPc \/ killPc' # killPc

\* C26: no step of List, ListTopByCPU or Kill changes the cached Snapshot,
\* the Collector's lock or anything else of the Collector, and their results
\* are functions of the process table alone; whatever the state of the lock
\* and of the loop, each of their steps can be taken (a publish does not
\* block them), and the loop's Lock() can be taken whenever the lock is free
\* of the Collector's own users (they do not block a publish).
C26_ProcessCallsIndependent ==
  /\ [](/\ listPc = "ready" => ENABLED CallList
        /\ topPc = "ready" => ENABLED CallTop
        /\ (killPc = "idle" /\ killCalls < MaxKillCalls) => ENABLED KillCall(1)
        /\ killPc = "resolve" => ENABLED KillResolve
        /\ killPc = "kill" => ENABLED KillSignal
        /\ killPc = "returned" => ENABLED KillReturn
        /\ (Alive /\ AtStmt("Lock") /\ mu.w = "free") => ENABLED LockAnnounce
        /\ (Alive /\ AtStmt("Lock") /\ mu.w = "pending") => ENABLED LockAcquire
        /\ (Alive /\ AtStmt("Unlock")) => ENABLED Unlock
        /\ listPc = "done" =>
             LET r == ListProcesses(procs, procsErr, limitIn, queryIn,
                                    withMetricsIn)
             IN listOut = r.out /\ listErr = r.err
        /\ topPc = "done" =>
             \E r \in ListTopProcessesByCPU(procs, procsErr, topLimitIn) :
                topOut = r.out /\ topErr = r.err)
  /\ [][ProcStep => collVars' = collVars]_vars

\* The loop holds the write lock in the middle of a publish; a kill has
\* been signalled, the top processes have been listed and ListProcesses
\* can be called.
C26_Witness ==
  /\ mu.w = "held" /\ wcur > 0
  /\ listPc = "ready" /\ ENABLED CallList
  /\ topPc = "done" /\ Len(signals) = 1

====
